---- MODULE Spec2Model ----
(***************************************************************************)
(* A model of the agent control core of OMG-Agent: the step-execution      *)
(* state machine (PhoneAgent.run / _execute_step), the action parser as    *)
(* far as the control loop depends on it, the action executor's result     *)
(* contract, the loop detector, the conversation history and the session   *)
(* manager with its on-disk store.                                         *)
(*                                                                         *)
(* Python's None is the string None for string-valued fields and the empty *)
(* tuple for point-valued fields.  Timestamps, log lines, screenshots and  *)
(* the model's free-text reasoning do not influence control flow and are   *)
(* left out.  The task of a run is a simple one, for which                 *)
(* analyze_task_complexity answers is_complex = False, except in the       *)
(* scenario of the waiting LLM, which is also run on a task with a plan.   *)
(***************************************************************************)
EXTENDS Integers, Sequences, FiniteSets, TLC

VARIABLES
    config,             \* AgentConfig plus the scripted LLM the agent talks to
    disk,               \* storage_dir: session_id -> the JSON record of <id>.json
    sessions,           \* SessionManager._sessions of the live process
    history,            \* HistoryManager._history (started = FALSE is None)
    parse_error_count,  \* PhoneAgent._parse_error_count
    current_session_id, \* PhoneAgent._current_session_id (0 is None)
    pc,                 \* "idle": no run() in progress, "loop": inside the for loop
    session,            \* run(): what run() did with session_id, and on which agent
    step,               \* run(): the loop variable
    user_reply,         \* run(): the user_reply argument / local
    last_result,        \* run(): last_result
    result,             \* how the last run() call ended
    runs,               \* number of run() calls made so far
    llm_calls,          \* number of LLM requests of the current run() call
    total_steps,        \* number of loop iterations made so far, all runs
    turn,               \* what the last loop iteration of the current run() call met
    probe,              \* a call of one function of the library: its input, and its output once made
    thread              \* AgentThread: its flags and where its run() is (at = "none": no thread)

vars == <<config, disk, sessions, history, parse_error_count, current_session_id, pc, session, step, user_reply, last_result, result, runs, llm_calls, total_steps, turn, probe, thread>>

\* the state of the agent
agent_vars == <<config, disk, sessions, history, parse_error_count, current_session_id, pc, session, step, user_reply, last_result, result, runs, llm_calls, total_steps, turn>>

-----------------------------------------------------------------------------
(* Bounds of the model *)

\* AgentConfig.max_steps of the short scenarios
MaxSteps == 3
\* run() calls in one behaviour
MaxRuns == 2
\* AgentConfig.max_steps of the long scenarios, and the loop iterations followed in them
MaxLongSteps == 6

MaxEarlier == 2

\* max_steps of the runs against the LLM that goes back and forth
MaxAlternatingSteps == 9

\* the longest history and the widest window of the context-building calls
MaxEntries == 4

MaxWindow == 3

\* the most sessions of a session manager, and the most operations made on it
MaxSessions == 2
MaxOps == 5

\* the most characters after the marker of a call
MaxBody == 5

\* the most steps of a planned task, the notes of its plan counted with them
MaxPlanEntries == 3

(* Program constants *)

max_parse_errors == 3
loop_abort_ceiling == 5
max_consecutive_same == 3
max_consecutive_swipes == 5
max_click_same_point == 3
point_tolerance == 50
summary_window == 5

max_coordinate == 1000

max_history_steps == 8

\* _try_advance_subtask: entries looked at, and entries of one sub-task that force an advance
subtask_window == 5

same_subtask_threshold == 3

\* TaskPlan.suggest_recovery: the repetitions from which on there is a suggestion
recovery_threshold == 2

None == "None"

Abs(x) == IF x < 0 THEN 0 - x ELSE x

Last(s) == s[Len(s)]

Max(a, b) == IF a >= b THEN a ELSE b

\* s[-n:] of Python
Tail_n(s, n) == IF Len(s) <= n THEN s ELSE SubSeq(s, Len(s) - n + 1, Len(s))

-----------------------------------------------------------------------------
(* Action model (actions/space.py).  params is the record of the keys the   *)
(* model uses; a key that is absent holds None (or the empty tuple).        *)

\* dict.get(key, default)
Get(v, default) == IF v = None THEN default ELSE v

NoParams == [point |-> <<>>, point1 |-> <<>>, point2 |-> <<>>, direction |-> None, value |-> None, return |-> None, message |-> None]

Action(type, params) == [action_type |-> type, params |-> params]

NoAction == Action("NONE", NoParams)

-----------------------------------------------------------------------------
(* LLM output, by structure.  syntax "tab" is text without a call marker,   *)
(* "do" / "finish" text holding a balanced do(action=...) / finish(message= *)
(* ...) call, "unbalanced" text holding the marker do(action= whose         *)
(* parentheses never close.  The fields are the key:value pairs (tab) or    *)
(* the keyword arguments (call) the text holds; action = None is text with  *)
(* no action field.  A point is the token list of its text.  Of the name    *)
(* table, the two entries whose names hold a space are left out.            *)

Tok(n) == [isint |-> TRUE, n |-> n]

Junk == [isint |-> FALSE, n |-> 0]

Reply(syntax, action, point, value, ret, message) == [syntax |-> syntax, action |-> action, point |-> point, point1 |-> <<>>, point2 |-> <<>>, direction |-> None, value |-> value, return |-> ret, message |-> message]

ACTION_NAME_MAP == [CLICK |-> "CLICK", DOUBLE_TAP |-> "DOUBLE_TAP", DOUBLE_CLICK |-> "DOUBLE_TAP", LONG_PRESS |-> "LONG_PRESS", LONGPRESS |-> "LONG_PRESS", SWIPE |-> "SWIPE", SLIDE |-> "SWIPE", SCROLL |-> "SWIPE", TYPE |-> "TYPE", BACK |-> "BACK", HOME |-> "HOME", LAUNCH |-> "LAUNCH", AWAKE |-> "LAUNCH", WAIT |-> "WAIT", INFO |-> "INFO", COMPLETE |-> "COMPLETE", ABORT |-> "ABORT", TAKE_OVER |-> "TAKE_OVER", Take_over |-> "TAKE_OVER", NOTE |-> "NOTE", Tap |-> "CLICK", Swipe |-> "SWIPE", Type |-> "TYPE", Type_Name |-> "TYPE", Back |-> "BACK", Home |-> "HOME", Launch |-> "LAUNCH", Wait |-> "WAIT", Interact |-> "INFO", Call_API |-> "NOTE"] @@ ("Double Tap" :> "DOUBLE_TAP") @@ ("Long Press" :> "LONG_PRESS")

ActionType == {"CLICK", "DOUBLE_TAP", "LONG_PRESS", "SWIPE", "TYPE", "BACK", "HOME", "LAUNCH", "WAIT", "INFO", "COMPLETE", "ABORT", "TAKE_OVER", "NOTE"}

\* str.upper() on the names that occur
Upper(name) ==
    CASE name = "Take_over" -> "TAKE_OVER"
      [] name = "Tap" -> "TAP"
      [] name = "Swipe" -> "SWIPE"
      [] name = "Type" -> "TYPE"
      [] name = "Type_Name" -> "TYPE_NAME"
      [] name = "Back" -> "BACK"
      [] name = "Home" -> "HOME"
      [] name = "Launch" -> "LAUNCH"
      [] name = "launch" -> "LAUNCH"
      [] name = "Wait" -> "WAIT"
      [] name = "Interact" -> "INTERACT"
      [] name = "Call_API" -> "CALL_API"
      [] name = "Foo" -> "FOO"
      [] name = "Double Tap" -> "DOUBLE TAP"
      [] name = "Long Press" -> "LONG PRESS"
      [] name = "None" -> "NONE"
      [] OTHER -> name

\* ActionParser._normalize_action_type; "ValueError" is the raise
normalize_action_type(name) ==
    IF name \in DOMAIN ACTION_NAME_MAP THEN ACTION_NAME_MAP[name]
    ELSE IF \E key \in DOMAIN ACTION_NAME_MAP : Upper(key) = Upper(name)
         THEN ACTION_NAME_MAP[CHOOSE key \in DOMAIN ACTION_NAME_MAP : Upper(key) = Upper(name)]
    ELSE IF Upper(name) \in ActionType THEN Upper(name)
    ELSE "ValueError"

\* ActionParser._parse_point: raises on fewer than two tokens or a token int() rejects
parse_point_ok(toks) == Len(toks) >= 2 /\ toks[1].isint /\ toks[2].isint

parse_point(toks) == <<toks[1].n, toks[2].n>>

ParseError == [ok |-> FALSE, action |-> NoAction]

Parsed(action) == [ok |-> TRUE, action |-> action]

\* ActionParser._build_action: a missing action_type is COMPLETE
build_action(type, params) == Action(IF type = None THEN "COMPLETE" ELSE type, params)

\* str.upper() on the directions that occur
UpperDirection(d) ==
    CASE d = "up" -> "UP"
      [] d = "down" -> "DOWN"
      [] d = "left" -> "LEFT"
      [] d = "right" -> "RIGHT"
      [] OTHER -> d

\* re.split(r'\t+|\s{2,}', ...) on a value: what is left of it in its key:value pair
first_field(v) == IF v = "a  b" THEN "a" ELSE v

\* _parse_point on the point text of a pair, when there is one
point_of_pair(toks) == IF toks = <<>> THEN <<>> ELSE parse_point(toks)

\* ActionParser._parse_tab_format
parse_tab_format(r) ==
    LET type == IF r.action = None THEN None ELSE normalize_action_type(r.action)
    IN  IF type = "ValueError" THEN ParseError
        ELSE IF \E toks \in {r.point, r.point1, r.point2} : toks # <<>> /\ ~parse_point_ok(toks) THEN ParseError
        ELSE Parsed(build_action(type, [NoParams EXCEPT !.point = point_of_pair(r.point), !.point1 = point_of_pair(r.point1), !.point2 = point_of_pair(r.point2), !.direction = UpperDirection(r.direction), !.value = first_field(r.value), !.return = first_field(r.return), !.message = first_field(r.message)]))

\* ast.literal_eval of a list literal: the numbers as written
literal_list(toks) == [i \in 1..Len(toks) |-> toks[i].n]

\* ActionParser._parse_function_call on a balanced call
parse_function_call(r) ==
    IF r.syntax = "finish"
    THEN Parsed(Action("COMPLETE", [NoParams EXCEPT !.return = IF r.return = None THEN "" ELSE r.return]))
    ELSE IF r.action \in {"Type", "Type_Name"} /\ r.value \notin {None, ""}
    THEN Parsed(Action("TYPE", [NoParams EXCEPT !.value = r.value]))
    ELSE LET type == normalize_action_type(r.action)
         IN  IF type = "ValueError" THEN ParseError
             ELSE Parsed(build_action(type, [NoParams EXCEPT !.point = literal_list(r.point), !.point1 = literal_list(r.point1), !.point2 = literal_list(r.point2), !.direction = r.direction, !.value = r.value, !.return = r.message]))

\* A text as _extract_balanced_call reads it: a sequence of characters, the
\* marker ("do(action=" or "finish(message=", which holds one opening
\* parenthesis) being one of them and x any character that is no parenthesis,
\* quote or backslash
Marker == "do("

\* text.find(start_marker), from 1; 0 is -1
find_marker(text) == IF \E i \in 1..Len(text) : text[i] = Marker THEN CHOOSE i \in 1..Len(text) : text[i] = Marker /\ \A j \in 1..(i - 1) : text[j] # Marker ELSE 0

\* the for loop of _extract_balanced_call from character i on; quotes holds the
\* characters that open a string, <<>> is None
RECURSIVE scan_call(_, _, _, _, _, _, _, _)
scan_call(text, start, i, count, in_string, string_char, escape, quotes) ==
    IF i > Len(text) THEN <<>>
    ELSE IF in_string /\ escape THEN scan_call(text, start, i + 1, count, TRUE, string_char, FALSE, quotes)
    ELSE IF in_string /\ text[i] = "\\" THEN scan_call(text, start, i + 1, count, TRUE, string_char, TRUE, quotes)
    ELSE IF in_string /\ text[i] = string_char THEN scan_call(text, start, i + 1, count, FALSE, string_char, FALSE, quotes)
    ELSE IF in_string THEN scan_call(text, start, i + 1, count, TRUE, string_char, FALSE, quotes)
    ELSE IF text[i] \in quotes THEN scan_call(text, start, i + 1, count, TRUE, text[i], FALSE, quotes)
    ELSE IF text[i] \in {"(", Marker} THEN scan_call(text, start, i + 1, count + 1, FALSE, string_char, FALSE, quotes)
    ELSE IF text[i] = ")" /\ count - 1 = 0 THEN SubSeq(text, start, i)
    ELSE IF text[i] = ")" THEN scan_call(text, start, i + 1, count - 1, FALSE, string_char, FALSE, quotes)
    ELSE scan_call(text, start, i + 1, count, FALSE, string_char, FALSE, quotes)

\* _extract_balanced_call with the double quote as the only string delimiter
extract_balanced_call_double_quotes(text) ==
    IF find_marker(text) = 0 THEN <<>>
    ELSE scan_call(text, find_marker(text), find_marker(text), 0, FALSE, None, FALSE, {"\""})

\* ActionParser._extract_balanced_call(text, start_marker)
extract_balanced_call(text) ==
    IF find_marker(text) = 0 THEN <<>>
    ELSE scan_call(text, find_marker(text), find_marker(text), 0, FALSE, None, FALSE, {"\"", "'"})

\* ActionParser.parse: an unbalanced call yields no extracted call and the text
\* goes to the tab-format path
parse(r) ==
    IF r.syntax \in {"finish", "do"} THEN parse_function_call(r)
    ELSE parse_tab_format(r)

\* the text of a point: its coordinates as written by str()
point_text(point) == [i \in 1..Len(point) |-> Tok(point[i])]

\* ActionParser._to_tab_string: action:<kind> and one key:value pair per parameter
to_tab_string(action) ==
    [syntax |-> "tab", action |-> action.action_type, point |-> point_text(action.params.point), point1 |-> point_text(action.params.point1), point2 |-> point_text(action.params.point2), direction |-> action.params.direction, value |-> action.params.value, return |-> action.params.return, message |-> action.params.message]

\* action_name_map of _to_function_string; the None of ABORT is formatted as "None"
action_name_map(type) ==
    CASE type = "CLICK" -> "Tap"
      [] type = "DOUBLE_TAP" -> "Double Tap"
      [] type = "LONG_PRESS" -> "Long Press"
      [] type = "SWIPE" -> "Swipe"
      [] type = "TYPE" -> "Type"
      [] type = "BACK" -> "Back"
      [] type = "HOME" -> "Home"
      [] type = "LAUNCH" -> "Launch"
      [] type = "WAIT" -> "Wait"
      [] type = "INFO" -> "Interact"
      [] type = "ABORT" -> "None"
      [] OTHER -> type

\* ActionParser._to_function_string: finish(message=...) for COMPLETE, else a do(...)
\* call with the action name, the points and the value
to_function_string(action) ==
    IF action.action_type = "COMPLETE" THEN Reply("finish", None, <<>>, None, Get(action.params.return, "Task completed"), None)
    ELSE [Reply("do", action_name_map(action.action_type), point_text(action.params.point), action.params.value, None, None) EXCEPT !.point1 = point_text(action.params.point1), !.point2 = point_text(action.params.point2)]

\* ActionParser.to_string
to_string(action, format) == IF format = "function" THEN to_function_string(action) ELSE to_tab_string(action)

-----------------------------------------------------------------------------
(* Action space (actions/space.py): validation.  In an action handed to     *)
(* validate a point parameter is absent, a list of values or some other     *)
(* value; the other parameters are absent (None) or present.                *)

PointValue(kind, coords) == [kind |-> kind, coords |-> coords]

\* the action as validate sees it
as_point_value(point) == IF point = <<>> THEN PointValue("absent", <<>>) ELSE PointValue("list", point_text(point))

RawAction(action) == [action_type |-> action.action_type, params |-> [action.params EXCEPT !.point = as_point_value(@), !.point1 = as_point_value(@), !.point2 = as_point_value(@)]]

\* param in params
has(params, param) == IF param \in {"point", "point1", "point2"} THEN params[param].kind # "absent" ELSE params[param] # None

REQUIRED_PARAMS(type) ==
    CASE type \in {"CLICK", "DOUBLE_TAP", "LONG_PRESS"} -> <<"point">>
      [] type \in {"TYPE", "LAUNCH", "WAIT", "INFO", "NOTE"} -> <<"value">>
      [] OTHER -> <<>>

OPTIONAL_PARAMS(type) ==
    CASE type = "CLICK" -> {"message"}
      [] type = "TYPE" -> {"point"}
      [] type = "COMPLETE" -> {"return"}
      [] type = "ABORT" -> {"value"}
      [] type = "TAKE_OVER" -> {"message"}
      [] OTHER -> {}

Valid == [ok |-> TRUE, msg |-> ""]

Invalid(msg) == [ok |-> FALSE, msg |-> msg]

\* the check of one point parameter: lists only, two coordinates, integers in range
validate_point(params, param_name) ==
    IF ~has(params, param_name) \/ params[param_name].kind # "list" THEN Valid
    ELSE IF Len(params[param_name].coords) # 2 THEN Invalid("Point " \o param_name \o " must have 2 coordinates")
    ELSE IF \E i \in 1..2 : ~(params[param_name].coords[i].isint /\ 0 <= params[param_name].coords[i].n /\ params[param_name].coords[i].n <= max_coordinate) THEN Invalid("Point " \o param_name \o " coordinates must be integers in [0, 1000]")
    ELSE Valid

\* ActionSpace.validate
validate(action) ==
    LET params == action.params
        required == REQUIRED_PARAMS(action.action_type)
    IN  IF required # <<>> /\ ~has(params, required[1]) THEN Invalid("Missing required parameter '" \o required[1] \o "'")
        ELSE IF action.action_type = "SWIPE" /\ ~((has(params, "point1") /\ has(params, "point2")) \/ (has(params, "point") /\ has(params, "direction"))) THEN Invalid("SWIPE requires either (point1, point2) or (point, direction)")
        ELSE IF ~validate_point(params, "point").ok THEN validate_point(params, "point")
        ELSE IF ~validate_point(params, "point1").ok THEN validate_point(params, "point1")
        ELSE validate_point(params, "point2")

-----------------------------------------------------------------------------
(* Action executor (actions/handler.py).  confirm is the confirmation       *)
(* callback's answer, dev what the backend does with a call: "ok" returns   *)
(* True, "failed" returns False, "raised" raises.  A handler's calls are    *)
(* the calls it makes to the confirmation callback and to the backend, in   *)
(* order; the cached screen size query and the durations are left out.      *)

ActionResult(success, should_finish, message, requires_user_input, user_prompt) == [success |-> success, should_finish |-> should_finish, message |-> message, requires_user_input |-> requires_user_input, user_prompt |-> user_prompt]

BackendOutcomes == {"ok", "failed", "raised"}

\* the screen of the device, in pixels
ScreenSize == <<1080, 2400>>

\* int(a / b)
Trunc(a, b) == IF a >= 0 THEN a \div b ELSE -((-a) \div b)

\* ActionHandler._to_absolute
to_absolute(point) == <<Trunc(point[1] * ScreenSize[1], 1000), Trunc(point[2] * ScreenSize[2], 1000)>>

\* a call to the confirmation callback or to a method of the backend
Call(name, args, text) == [name |-> name, args |-> args, text |-> text]

\* a handler returned res after the calls
Handled(calls, res) == [calls |-> calls, raised |-> FALSE, result |-> res]

\* a handler that makes the calls one after the other and returns the success of
\* the last: a backend that raises does so at the first call to it
backend_calls(before, calls, dev) ==
    IF dev = "raised" THEN [calls |-> Append(before, Head(calls)), raised |-> TRUE, result |-> ActionResult(FALSE, FALSE, None, FALSE, None)]
    ELSE Handled(before \o calls, ActionResult(dev = "ok", FALSE, None, FALSE, None))

MissingPoint == Handled(<<>>, ActionResult(FALSE, FALSE, "Missing point parameter", FALSE, None))

\* _handle_click with the tap issued before the confirmation is asked for
handle_click_tap_first(action, confirm, dev) ==
    IF action.params.point = <<>> THEN MissingPoint
    ELSE IF action.params.message # None /\ ~confirm THEN Handled(<<Call("tap", to_absolute(action.params.point), None), Call("confirmation_callback", <<>>, action.params.message)>>, ActionResult(FALSE, TRUE, "User cancelled sensitive operation", FALSE, None))
    ELSE backend_calls(IF action.params.message # None THEN <<Call("confirmation_callback", <<>>, action.params.message)>> ELSE <<>>, <<Call("tap", to_absolute(action.params.point), None)>>, dev)

handle_click(action, confirm, dev) ==
    IF action.params.point = <<>> THEN MissingPoint
    ELSE IF action.params.message # None /\ ~confirm THEN Handled(<<Call("confirmation_callback", <<>>, action.params.message)>>, ActionResult(FALSE, TRUE, "User cancelled sensitive operation", FALSE, None))
    ELSE backend_calls(IF action.params.message # None THEN <<Call("confirmation_callback", <<>>, action.params.message)>> ELSE <<>>, <<Call("tap", to_absolute(action.params.point), None)>>, dev)

handle_double_tap(action, dev) ==
    IF action.params.point = <<>> THEN MissingPoint
    ELSE backend_calls(<<>>, <<Call("double_tap", to_absolute(action.params.point), None)>>, dev)

handle_long_press(action, dev) ==
    IF action.params.point = <<>> THEN MissingPoint
    ELSE backend_calls(<<>>, <<Call("long_press", to_absolute(action.params.point), None)>>, dev)

\* DEFAULT_SWIPE_FRACTION of the screen, per axis
swipe_delta == <<Trunc(3 * ScreenSize[1], 10), Trunc(3 * ScreenSize[2], 10)>>

\* direction_map of _handle_swipe: where the swipe from p ends
swipe_end(p, direction) ==
    CASE direction = "UP" -> <<p[1], p[2] - swipe_delta[2]>>
      [] direction = "DOWN" -> <<p[1], p[2] + swipe_delta[2]>>
      [] direction = "LEFT" -> <<p[1] - swipe_delta[1], p[2]>>
      [] direction = "RIGHT" -> <<p[1] + swipe_delta[1], p[2]>>

handle_swipe(action, dev) ==
    IF action.params.point1 # <<>> /\ action.params.point2 # <<>>
    THEN backend_calls(<<>>, <<Call("swipe", to_absolute(action.params.point1) \o to_absolute(action.params.point2), None)>>, dev)
    ELSE IF action.params.point # <<>> /\ action.params.direction # None
    THEN IF UpperDirection(action.params.direction) \notin {"UP", "DOWN", "LEFT", "RIGHT"} THEN Handled(<<>>, ActionResult(FALSE, FALSE, "Invalid direction", FALSE, None))
         ELSE backend_calls(<<>>, <<Call("swipe", to_absolute(action.params.point) \o swipe_end(to_absolute(action.params.point), UpperDirection(action.params.direction)), None)>>, dev)
    ELSE Handled(<<>>, ActionResult(FALSE, FALSE, "Missing swipe parameters", FALSE, None))

\* _handle_type: a tap on the input field first when a point is given
handle_type(action, dev) ==
    backend_calls(<<>>, (IF action.params.point # <<>> THEN <<Call("tap", to_absolute(action.params.point), None)>> ELSE <<>>) \o <<Call("type_text", <<>>, Get(action.params.value, ""))>>, dev)

handle_back(action, dev) == backend_calls(<<>>, <<Call("press_back", <<>>, None)>>, dev)

handle_home(action, dev) == backend_calls(<<>>, <<Call("press_home", <<>>, None)>>, dev)

handle_launch(action, dev) ==
    IF action.params.value \in {None, ""} THEN Handled(<<>>, ActionResult(FALSE, FALSE, "Missing app name", FALSE, None))
    ELSE LET h == backend_calls(<<>>, <<Call("launch_app", <<>>, action.params.value)>>, dev)
         IN  IF dev = "failed" THEN [h EXCEPT !.result.message = "Failed to launch app"] ELSE h

\* _handle_wait, _handle_note
handle_wait(action) == Handled(<<>>, ActionResult(TRUE, FALSE, None, FALSE, None))

\* ActionHandler._get_handler and the call of the handler
dispatch(action, confirm, dev) ==
    CASE action.action_type = "CLICK" -> handle_click(action, confirm, dev)
      [] action.action_type = "DOUBLE_TAP" -> handle_double_tap(action, dev)
      [] action.action_type = "LONG_PRESS" -> handle_long_press(action, dev)
      [] action.action_type = "SWIPE" -> handle_swipe(action, dev)
      [] action.action_type = "TYPE" -> handle_type(action, dev)
      [] action.action_type = "BACK" -> handle_back(action, dev)
      [] action.action_type = "HOME" -> handle_home(action, dev)
      [] action.action_type = "LAUNCH" -> handle_launch(action, dev)
      [] action.action_type \in {"WAIT", "NOTE"} -> handle_wait(action)
      [] OTHER -> Handled(<<>>, ActionResult(FALSE, FALSE, "Unknown action type", FALSE, None))

\* execute answering a question of the agent as the end of the task
execute_info_finishing(action, confirm, dev) ==
    CASE action.action_type = "COMPLETE" -> ActionResult(TRUE, TRUE, Get(action.params.return, "Task completed"), FALSE, None)
      [] action.action_type = "ABORT" -> ActionResult(TRUE, TRUE, Get(action.params.value, "Task aborted"), FALSE, None)
      [] action.action_type = "INFO" -> ActionResult(TRUE, TRUE, None, TRUE, Get(action.params.value, "Please provide more information"))
      [] action.action_type = "TAKE_OVER" -> ActionResult(TRUE, FALSE, None, FALSE, None)
      [] OTHER -> IF dispatch(action, confirm, dev).raised THEN ActionResult(FALSE, FALSE, "Action failed", FALSE, None)
                  ELSE dispatch(action, confirm, dev).result

\* ActionHandler.execute
execute(action, confirm, dev) ==
    CASE action.action_type = "COMPLETE" -> ActionResult(TRUE, TRUE, Get(action.params.return, "Task completed"), FALSE, None)
      [] action.action_type = "ABORT" -> ActionResult(TRUE, TRUE, Get(action.params.value, "Task aborted"), FALSE, None)
      [] action.action_type = "INFO" -> ActionResult(TRUE, FALSE, None, TRUE, Get(action.params.value, "Please provide more information"))
      [] action.action_type = "TAKE_OVER" -> ActionResult(TRUE, FALSE, None, FALSE, None)
      [] OTHER -> IF dispatch(action, confirm, dev).raised THEN ActionResult(FALSE, FALSE, "Action failed", FALSE, None)
                  ELSE dispatch(action, confirm, dev).result

\* the calls ActionHandler.execute made to the confirmation callback and the backend
execute_calls(action, confirm, dev) ==
    IF action.action_type \in {"COMPLETE", "ABORT", "INFO", "TAKE_OVER"} THEN <<>>
    ELSE dispatch(action, confirm, dev).calls

\* the calls ActionHandler.execute made to the takeover callback
takeover_calls(action) ==
    IF action.action_type = "TAKE_OVER" THEN <<Call("takeover_callback", <<>>, Get(action.params.message, "Human intervention required"))>>
    ELSE <<>>

-----------------------------------------------------------------------------
(* Task planner (planner.py).  A description stands for a Chinese text of   *)
(* the source; keywords_of gives the keywords of _try_advance_subtask it    *)
(* contains.  notes is the length of execution_notes.                       *)

SubTask(id, description, app_target) == [id |-> id, description |-> description, status |-> "pending", app_target |-> app_target]

TaskPlan(sub_tasks) == [present |-> TRUE, sub_tasks |-> sub_tasks, current_step |-> 0, notes |-> 0]

\* task_plan = None
NoPlan == [present |-> FALSE, sub_tasks |-> <<>>, current_step |-> 0, notes |-> 0]

\* TaskPlan.current_sub_task is not None
has_current(plan) == plan.present /\ 0 <= plan.current_step /\ plan.current_step < Len(plan.sub_tasks)

\* TaskPlan.current_sub_task
current_sub_task(plan) == plan.sub_tasks[plan.current_step + 1]

\* TaskPlan.is_complete
is_complete(plan) == \A i \in 1..Len(plan.sub_tasks) : plan.sub_tasks[i].status = "completed"

\* mark_current_complete stepping on without a look at current_sub_task
mark_current_complete_unguarded(plan) ==
    [plan EXCEPT !.sub_tasks = [i \in DOMAIN @ |-> IF i = plan.current_step + 1 THEN [@[i] EXCEPT !.status = "completed"] ELSE @[i]], !.current_step = @ + 1]

\* TaskPlan.mark_current_complete
mark_current_complete(plan) ==
    IF has_current(plan) THEN [plan EXCEPT !.sub_tasks[plan.current_step + 1].status = "completed", !.current_step = @ + 1]
    ELSE plan

\* TaskPlan.mark_current_failed
mark_current_failed(plan) ==
    IF has_current(plan) THEN [plan EXCEPT !.sub_tasks[plan.current_step + 1].status = "failed", !.notes = @ + 1]
    ELSE plan

\* TaskPlan.skip_current
skip_current(plan) ==
    IF has_current(plan) THEN [plan EXCEPT !.sub_tasks[plan.current_step + 1].status = "completed", !.notes = @ + 1, !.current_step = @ + 1]
    ELSE plan

\* TaskPlan._renumber_steps
renumber_steps(sub_tasks) == [i \in DOMAIN sub_tasks |-> [sub_tasks[i] EXCEPT !.id = i]]

\* list.insert(position, x): the index the new element gets, from 0
insert_index(len, position) ==
    IF position < 0 THEN Max(0, len + position)
    ELSE IF position > len THEN len
    ELSE position

\* list.insert
list_insert(list, position, x) ==
    SubSeq(list, 1, insert_index(Len(list), position)) \o <<x>> \o SubSeq(list, insert_index(Len(list), position) + 1, Len(list))

\* TaskPlan.insert_step; given = FALSE is position = None
insert_step(plan, description, given, position) ==
    [plan EXCEPT !.sub_tasks = renumber_steps(list_insert(@, IF ~given THEN plan.current_step + 1 ELSE position, SubTask(0, description, None))),
                 !.notes = @ + 1]

\* the tasks of the model: one that the WeChat message template matches, one
\* that the settings template matches, one that no template matches
PlannedTasks == {"message wechat", "change settings", "book flight"}

\* TaskPlanner.TASK_PATTERNS: the steps of the first pattern that matches task
matching_template(task) ==
    CASE task = "message wechat" -> <<SubTask(1, "launch wechat", "com.tencent.mm"), SubTask(2, "search or find contact", None), SubTask(3, "type message", None), SubTask(4, "click send button", None)>>
      [] task = "change settings" -> <<SubTask(1, "launch settings", None), SubTask(2, "find the setting", None), SubTask(3, "change the setting", None)>>
      [] OTHER -> <<>>

\* create_plan, "Fallback": the generic two-step plan
generic_plan == TaskPlan(<<SubTask(1, "analyse and start", None), SubTask(2, "complete the goal", None)>>)

\* _decompose_with_llm, "Fallback"
llm_fallback_plan == TaskPlan(<<SubTask(1, "execute task", None)>>)

\* an answer of the LLM to the decomposition prompt: the request raises, the
\* content holds no "[", the text from "[" to "]" is no JSON, or it is a JSON
\* array of steps; a step is a dict with or without the key id, or no dict
PlanAnswer(kind, steps) == [kind |-> kind, steps |-> steps]

NoAnswer == PlanAnswer("none", <<>>)

RECURSIVE sub_tasks_of(_, _)
\* the loop over steps of _decompose_with_llm, done holds the sub-tasks so far
sub_tasks_of(steps, done) ==
    IF steps = <<>> THEN done
    ELSE sub_tasks_of(Tail(steps), Append(done, SubTask(IF ~Head(steps).has_id THEN Len(done) + 1 ELSE Head(steps).id, Head(steps).description, None)))

\* TaskPlanner._decompose_with_llm
decompose_with_llm(answer) ==
    IF answer.kind \in {"raises", "no array", "no json"} THEN llm_fallback_plan
    ELSE IF \E i \in DOMAIN answer.steps : ~answer.steps[i].dict THEN llm_fallback_plan
    ELSE TaskPlan(sub_tasks_of(answer.steps, <<>>))

\* TaskPlanner.create_plan(task, use_llm, llm_client), answer is what the client gives
create_plan(task, use_llm, answer) ==
    IF matching_template(task) # <<>> THEN TaskPlan(matching_template(task))
    ELSE IF use_llm THEN decompose_with_llm(answer)
    ELSE generic_plan

\* the keywords of _try_advance_subtask a description contains
keywords_of(description) ==
    CASE description = "search or find contact" -> {"search"}
      [] description = "type message" -> {"type"}
      [] description = "click send button" -> {"click", "send"}
      [] description = "return to desktop" -> {"return", "desktop"}
      [] OTHER -> {}

-----------------------------------------------------------------------------
(* Conversation history and loop detector (history.py) *)

\* an entry recorded against no sub-task (sub_task_id = 0 is None)
HistoryEntry(n, action, reply) == [step |-> n, action |-> action, user_reply |-> reply, sub_task_id |-> 0]

NoHistory == [started |-> FALSE, entries |-> <<>>, task_plan |-> NoPlan]

\* the task of the agent's runs
TaskText == "open settings app"

\* analyze_task_complexity(task)["is_complex"]
is_complex(task) == task \in PlannedTasks

\* HistoryManager.start_task(task, llm_client): a complex task gets a plan whose
\* first sub-task is in progress
start_task_planned(task, use_llm, answer) ==
    IF ~is_complex(task) THEN [started |-> TRUE, entries |-> <<>>, task_plan |-> NoPlan]
    ELSE [started |-> TRUE, entries |-> <<>>,
          task_plan |-> [create_plan(task, use_llm, answer) EXCEPT !.sub_tasks = [i \in DOMAIN @ |-> IF i = 1 THEN [@[i] EXCEPT !.status = "in_progress"] ELSE @[i]]]]

\* HistoryManager.start_task(task, llm_client = self.llm_client) of run(); the
\* client is not asked about the tasks of the agent's runs
start_task(task) == start_task_planned(task, TRUE, NoAnswer)

\* add_entry numbering the entries from 0
add_entry_zero_based(h, action, reply) ==
    [h EXCEPT !.entries = Append(@, [HistoryEntry(Len(@), action, reply) EXCEPT !.sub_task_id = IF has_current(h.task_plan) THEN current_sub_task(h.task_plan).id ELSE 0])]

\* ConversationHistory.add_entry
add_entry(h, action, reply) ==
    [h EXCEPT !.entries = Append(@, [HistoryEntry(Len(@) + 1, action, reply) EXCEPT !.sub_task_id = IF has_current(h.task_plan) THEN current_sub_task(h.task_plan).id ELSE 0])]

\* HistoryManager.step_count
step_count(h) == Len(h.entries)

\* HistoryManager.get_summary: the action kinds of the last five entries
get_summary(h) == [i \in 1..Len(Tail_n(h.entries, summary_window)) |-> <<Tail_n(h.entries, summary_window)[i].step, Tail_n(h.entries, summary_window)[i].action.action_type>>]

\* LoopDetector._are_points_similar on two points
are_points_similar(p, q) ==
    /\ Len(p) >= 2
    /\ Len(q) >= 2
    /\ Abs(q[1] - p[1]) <= point_tolerance
    /\ Abs(q[2] - p[2]) <= point_tolerance

\* LoopDetector._are_points_similar on a list: every point against the first
all_points_similar(points) ==
    /\ points # <<>>
    /\ Len(points[1]) >= 2
    /\ \A i \in 2..Len(points) : are_points_similar(points[1], points[i])

\* LoopDetector._actions_identical
actions_identical(a1, a2) ==
    IF a1.action_type # a2.action_type THEN FALSE
    ELSE IF a1.action_type = "CLICK" /\ a1.params.point # <<>> /\ a2.params.point # <<>>
    THEN Abs(a1.params.point[1] - a2.params.point[1]) <= point_tolerance /\ Abs(a1.params.point[2] - a2.params.point[2]) <= point_tolerance
    ELSE IF a1.action_type = "TYPE" THEN a1.params.value = a2.params.value
    ELSE IF a1.action_type = "SWIPE" /\ a1.params.point1 # <<>> /\ a1.params.point2 # <<>> /\ a2.params.point1 # <<>> /\ a2.params.point2 # <<>>
    THEN are_points_similar(a1.params.point1, a2.params.point1) /\ are_points_similar(a1.params.point2, a2.params.point2)
    ELSE IF a1.action_type \in {"BACK", "HOME", "WAIT"} THEN TRUE
    ELSE a1.params = a2.params

\* the number of entries at the end of entries that are identical to action
RECURSIVE same_action_count(_, _)
same_action_count(entries, action) ==
    IF entries = <<>> \/ ~actions_identical(Last(entries).action, action) THEN 0
    ELSE 1 + same_action_count(SubSeq(entries, 1, Len(entries) - 1), action)

\* the points of the entries that have one
RECURSIVE points_of(_)
points_of(entries) ==
    IF entries = <<>> THEN <<>>
    ELSE IF entries[1].action.params.point = <<>> THEN points_of(Tail(entries))
    ELSE <<entries[1].action.params.point>> \o points_of(Tail(entries))

\* check 1 of check_loop: the last entries share one action kind
check_same_kind(entries) ==
    LET recent == Tail_n(entries, max_consecutive_same)
    IN  /\ Len(recent) >= max_consecutive_same
        /\ \A i \in 1..Len(recent) : recent[i].action.action_type = recent[1].action.action_type
        /\ \/ /\ recent[1].action.action_type = "SWIPE"
              /\ Len(entries) >= max_consecutive_swipes
              /\ \A i \in 1..max_consecutive_swipes : Tail_n(entries, max_consecutive_swipes)[i].action.action_type = "SWIPE"
           \/ /\ recent[1].action.action_type = "CLICK"
              /\ Len(points_of(recent)) >= max_click_same_point
              /\ all_points_similar(points_of(recent))

\* check 2 with the comparison of the first and the third kind left out
check_alternating_second_only(entries) ==
    /\ Len(entries) >= 4
    /\ LET t == [i \in 1..4 |-> Tail_n(entries, 4)[i].action.action_type]
       IN  t[2] = t[4] /\ t[1] # t[2]

\* check 2 of check_loop: A-B-A-B
check_alternating(entries) ==
    /\ Len(entries) >= 4
    /\ LET t == [i \in 1..4 |-> Tail_n(entries, 4)[i].action.action_type]
       IN  t[1] = t[3] /\ t[2] = t[4] /\ t[1] # t[2]

\* check 3 of check_loop: the exact same action repeated
check_exact_repeat(entries) ==
    /\ Len(entries) >= 2
    /\ actions_identical(Last(entries).action, entries[Len(entries) - 1].action)
    /\ 1 + same_action_count(SubSeq(entries, 1, Len(entries) - 1), Last(entries).action) >= max_consecutive_same

\* LoopDetector.check_loop: is_loop and which check fired
check_loop(entries) ==
    IF Len(entries) < 2 THEN [is_loop |-> FALSE, msg |-> ""]
    ELSE IF check_same_kind(entries) THEN [is_loop |-> TRUE, msg |-> "same kind"]
    ELSE IF check_alternating(entries) THEN [is_loop |-> TRUE, msg |-> "alternating"]
    ELSE IF check_exact_repeat(entries) THEN [is_loop |-> TRUE, msg |-> "exact repeat"]
    ELSE [is_loop |-> FALSE, msg |-> ""]

-----------------------------------------------------------------------------
(* Session manager (session.py).  A store is the pair of the in-memory map  *)
(* and the files of storage_dir.  screen_size is <<>> (None) or             *)
(* <<"tuple", w, h>>; JSON has no tuples and writes a list.                 *)

NoExtra == [completion_message |-> None, abort_reason |-> None]

SessionState(sid, task) == [session_id |-> sid, task |-> task, status |-> "running", device_id |-> None, screen_size |-> <<>>, step_count |-> 0, history_summary |-> <<>>, pending_question |-> None, extra_info |-> NoExtra]

Store(mem, files) == [mem |-> mem, files |-> files]

\* asdict + json.dump, read back by json.load + SessionState(**data)
to_json(state) == [state EXCEPT !.screen_size = IF @ = <<>> THEN @ ELSE <<"list", @[2], @[3]>>]

\* SessionManager._save_session
save_session(st, state) == Store(st.mem, IF config.session_dir THEN (state.session_id :> to_json(state)) @@ st.files ELSE st.files)

\* the state object is shared: the map sees the assignment, then the file is written
put_session(st, state) == save_session(Store((state.session_id :> state) @@ st.mem, st.files), state)

\* uuid4()[:8]: an id no session has
new_session_id(st) == CHOOSE sid \in 1..(1 + Cardinality(DOMAIN st.mem \cup DOMAIN st.files)) : sid \notin DOMAIN st.mem \cup DOMAIN st.files /\ \A other \in 1..(sid - 1) : other \in DOMAIN st.mem \cup DOMAIN st.files

\* SessionManager.create_session
create_session(st, task) == put_session(st, SessionState(new_session_id(st), task))

\* SessionManager.update_session: given maps the arguments that are not None
update_session(st, sid, given) == put_session(st, [k \in DOMAIN st.mem[sid] |-> IF k \in DOMAIN given THEN given[k] ELSE st.mem[sid][k]])

\* SessionManager.pause_session
pause_session(st, sid, question) == update_session(st, sid, [status |-> "paused", pending_question |-> question])

\* resume_session that changes the state in memory and writes no file
resume_session_unsaved(st, sid) ==
    IF sid \notin DOMAIN st.mem THEN st
    ELSE IF st.mem[sid].status = "paused" THEN Store((sid :> [st.mem[sid] EXCEPT !.status = "running", !.pending_question = None]) @@ st.mem, st.files)
    ELSE st

\* SessionManager.resume_session: the store after the call
resume_session(st, sid) ==
    IF sid \notin DOMAIN st.mem THEN st
    ELSE IF st.mem[sid].status = "paused" THEN put_session(st, [st.mem[sid] EXCEPT !.status = "running", !.pending_question = None])
    ELSE st

\* SessionManager.resume_session: whether it returns a state (and not None)
resume_session_found(st, sid) == sid \in DOMAIN st.mem

\* truthiness of an optional string
Truthy(v) == v \notin {None, ""}

\* SessionManager.complete_session
complete_session(st, sid, message) ==
    IF sid \notin DOMAIN st.mem THEN st
    ELSE put_session(st, [st.mem[sid] EXCEPT !.status = "completed", !.extra_info.completion_message = IF Truthy(message) THEN message ELSE @])

\* SessionManager.abort_session
abort_session(st, sid, reason) ==
    IF sid \notin DOMAIN st.mem THEN st
    ELSE put_session(st, [st.mem[sid] EXCEPT !.status = "aborted", !.extra_info.abort_reason = IF Truthy(reason) THEN reason ELSE @])

\* a map without the key sid
Without(map, sid) == [k \in DOMAIN map \ {sid} |-> map[k]]

\* delete_session that leaves the file of the session in storage_dir
delete_session_keeping_file(st, sid) == IF sid \in DOMAIN st.mem THEN Store(Without(st.mem, sid), st.files) ELSE st

\* SessionManager.delete_session
delete_session(st, sid) == IF sid \in DOMAIN st.mem THEN Store(Without(st.mem, sid), IF config.session_dir THEN Without(st.files, sid) ELSE st.files) ELSE st

\* SessionManager.cleanup_old_sessions: the loop over the sessions from sid on; old
\* holds the sessions whose updated_at is before the cutoff
RECURSIVE cleanup_from(_, _, _)
cleanup_from(st, sid, old) ==
    IF \A k \in DOMAIN st.mem : k < sid THEN st
    ELSE IF sid \in DOMAIN st.mem /\ sid \in old /\ st.mem[sid].status \in {"completed", "aborted"} THEN cleanup_from(delete_session(st, sid), sid + 1, old)
    ELSE cleanup_from(st, sid + 1, old)

\* SessionManager.cleanup_old_sessions
cleanup_old_sessions(st, old) == cleanup_from(st, 1, old)

\* SessionManager.__init__ / _load_sessions: every readable file of storage_dir
load_sessions(files) == IF config.session_dir THEN files ELSE <<>>

-----------------------------------------------------------------------------
(* Agent control loop (phone_agent.py) *)

StepResult(success, finished, action, message, needs_user_input, user_prompt, sid, n) == [present |-> TRUE, success |-> success, finished |-> finished, action |-> action, message |-> message, needs_user_input |-> needs_user_input, user_prompt |-> user_prompt, session_id |-> sid, step_count |-> n]

\* last_result = None
NoStepResult == [present |-> FALSE, success |-> FALSE, finished |-> FALSE, action |-> NoAction, message |-> None, needs_user_input |-> FALSE, user_prompt |-> None, session_id |-> 0, step_count |-> 0]

RunResult(success, message, n, sid, final_action, stop_reason) == [outcome |-> "returned", success |-> success, message |-> message, step_count |-> n, session_id |-> sid, final_action |-> final_action, stop_reason |-> stop_reason]

\* no run() call has ended yet, or one is in progress
NoRunResult == [outcome |-> "none", success |-> FALSE, message |-> None, step_count |-> 0, session_id |-> 0, final_action |-> NoAction, stop_reason |-> None]

\* run() ended by an exception leaving it
Raised(exception) == [NoRunResult EXCEPT !.outcome = "raised", !.message = exception]

\* a or b, on optional strings
Or(a, b) == IF Truthy(a) THEN a ELSE b

\* the Wait substituted for an output that failed to parse
WaitRetry == Action("WAIT", [NoParams EXCEPT !.value = "1"])

\* the Abort synthesized at the parse-error ceiling
ParseAbort(n) == Action("ABORT", [NoParams EXCEPT !.value = "LLM response parsing failed " \o ToString(n) \o " times"])

\* the Abort synthesized at the loop ceiling
LoopAbort(msg) == Action("ABORT", [NoParams EXCEPT !.value = "Agent stuck in loop: " \o msg])

\* what one _execute_step call did: asked says the LLM was called, executed that
\* the action handler was, raised that an exception left the call
StepOutcome(h, pec, res, raised, asked, executed) == [history |-> h, parse_error_count |-> pec, res |-> res, raised |-> raised, asked |-> asked, executed |-> executed, request |-> <<>>]

\* a message of an LLM request: the system prompt, the observation of a step, the
\* action the assistant gave at it, the user's reply to it, or the current screen;
\* task says the text starts with the task, truncated that it holds the marker
\* of left-out steps, image that a screenshot is attached
Message(role, kind, n, action, text) == [role |-> role, kind |-> kind, step |-> n, action |-> action, text |-> text, task |-> FALSE, truncated |-> FALSE, image |-> FALSE]

\* to_messages of one entry with the screenshot of the step attached
entry_messages_with_image(e, i, start_idx) ==
    <<[Message("user", "observation", e.step, NoAction, None) EXCEPT !.task = (i = 0), !.truncated = (i = 0 /\ start_idx > 0), !.image = TRUE],
      Message("assistant", "action", e.step, e.action, None)>>
        \o (IF Truthy(e.user_reply) THEN <<Message("user", "reply", e.step, NoAction, e.user_reply)>> ELSE <<>>)

\* ConversationHistory.to_messages of the i-th rendered entry (from 0): the
\* observation, the action, then the reply
entry_messages(e, i, start_idx) ==
    <<[Message("user", "observation", e.step, NoAction, None) EXCEPT !.task = (i = 0), !.truncated = (i = 0 /\ start_idx > 0)],
      Message("assistant", "action", e.step, e.action, None)>>
        \o (IF Truthy(e.user_reply) THEN <<Message("user", "reply", e.step, NoAction, e.user_reply)>> ELSE <<>>)

RECURSIVE messages_of(_, _, _)
messages_of(entries, i, start_idx) ==
    IF entries = <<>> THEN <<>> ELSE entry_messages(Head(entries), i, start_idx) \o messages_of(Tail(entries), i + 1, start_idx)

\* ConversationHistory.to_messages: the entries from start_idx on
to_messages(entries, max_history) ==
    messages_of(SubSeq(entries, Max(0, Len(entries) - max_history) + 1, Len(entries)), 0, Max(0, Len(entries) - max_history))

\* HistoryManager.build_context_messages of a manager constructed with max_history
build_context(h, max_history) ==
    <<Message("system", "system", 0, NoAction, None)>>
        \o (IF h.started /\ h.entries # <<>> THEN to_messages(h.entries, max_history) ELSE <<>>)
        \o <<[Message("user", "current", Len(h.entries) + 1, NoAction, None) EXCEPT !.task = TRUE, !.image = TRUE]>>

\* HistoryManager.build_context_messages of the agent's manager
build_context_messages(h) == build_context(h, max_history_steps)

\* the reply attached to the first entry of the history
attach_reply_first(h, reply) ==
    IF Truthy(reply) /\ h.started /\ h.entries # <<>> THEN [h EXCEPT !.entries[1].user_reply = reply]
    ELSE h

\* _execute_step, first part: the reply handed in is attached to the last entry
attach_reply(h, reply) ==
    IF Truthy(reply) /\ h.started /\ h.entries # <<>> THEN [h EXCEPT !.entries[Len(h.entries)].user_reply = reply]
    ELSE h

\* the loop check with the ceiling one repetition later
loop_ceiling_hit_late(h, action) ==
    /\ h.started
    /\ h.entries # <<>>
    /\ check_loop(Append(h.entries, HistoryEntry(Len(h.entries) + 1, action, None))).is_loop
    /\ same_action_count(h.entries, action) >= loop_abort_ceiling + 1

\* _execute_step: the pre-execution loop check says abort
loop_ceiling_hit(h, action) ==
    /\ h.started
    /\ h.entries # <<>>
    /\ check_loop(Append(h.entries, HistoryEntry(Len(h.entries) + 1, action, None))).is_loop
    /\ same_action_count(h.entries, action) >= loop_abort_ceiling

\* the loop check appending the candidate to the history itself, not to a copy
loop_note_without_copy(h, action) ==
    IF h.started /\ h.entries # <<>>
    THEN [h EXCEPT !.entries = Append(@, HistoryEntry(Len(@) + 1, action, None)),
                   !.task_plan.notes = IF check_loop(Append(h.entries, HistoryEntry(Len(h.entries) + 1, action, None))).is_loop /\ h.task_plan.present /\ same_action_count(h.entries, action) >= recovery_threshold THEN @ + 1 ELSE @]
    ELSE h

\* _execute_step: when the loop check fires and the plan has a recovery
\* suggestion for the number of repetitions, a note is added to the plan
loop_note(h, action) ==
    IF /\ h.started
       /\ h.entries # <<>>
       /\ check_loop(Append(h.entries, HistoryEntry(Len(h.entries) + 1, action, None))).is_loop
       /\ h.task_plan.present
       /\ same_action_count(h.entries, action) >= recovery_threshold
    THEN [h EXCEPT !.task_plan.notes = @ + 1]
    ELSE h

\* TaskPlan.current_sub_task.status = IN_PROGRESS, when there is a current sub-task
mark_in_progress(plan) ==
    IF has_current(plan) THEN [plan EXCEPT !.sub_tasks[plan.current_step + 1].status = "in_progress"] ELSE plan

\* HistoryManager.advance_sub_task
advance_sub_task(h) ==
    IF h.started /\ h.task_plan.present THEN [h EXCEPT !.task_plan = mark_in_progress(mark_current_complete(@))]
    ELSE h

\* app_target in package_name or package_name in app_target, on the package
\* names of the model
package_matches(app_target, package_name) == package_name = "" \/ app_target = package_name

\* _try_advance_subtask: the action is likely to complete the sub-task
likely_complete(sub, action, current_app) ==
    CASE action.action_type = "LAUNCH" -> sub.app_target # None /\ current_app # None /\ package_matches(sub.app_target, current_app)
      [] action.action_type = "CLICK" -> keywords_of(sub.description) \cap {"click", "send"} # {}
      [] action.action_type = "TYPE" -> keywords_of(sub.description) \cap {"type", "search"} # {}
      [] action.action_type \in {"BACK", "HOME"} -> keywords_of(sub.description) \cap {"return", "desktop"} # {}
      [] OTHER -> FALSE

\* _try_advance_subtask: the number of the last entries recorded against the sub-task
same_subtask_actions(entries, id) ==
    Cardinality({i \in 1..Len(Tail_n(entries, subtask_window)) : Tail_n(entries, subtask_window)[i].sub_task_id = id})

\* PhoneAgent._try_advance_subtask
try_advance_subtask(h, action, current_app) ==
    IF ~has_current(h.task_plan) THEN h
    ELSE IF likely_complete(current_sub_task(h.task_plan), action, current_app) THEN advance_sub_task(h)
    ELSE IF same_subtask_actions(h.entries, current_sub_task(h.task_plan).id) >= same_subtask_threshold THEN advance_sub_task(h)
    ELSE h

\* _execute_step, "Record in history" and "Auto-advance sub-task progress"
record_action(h, action, reply, success, current_app) ==
    IF success /\ h.task_plan.present THEN try_advance_subtask(add_entry(h, action, reply), action, current_app)
    ELSE add_entry(h, action, reply)

\* _execute_step, from "Execute action" on; add_action raises when no task was started
execute_and_record(h, pec, reply, action, confirm, dev, sid, step_num, current_app) ==
    LET action_result == execute(action, confirm, dev)
        finished == action.action_type \in {"COMPLETE", "ABORT"} \/ action_result.should_finish
    IN  IF ~h.started THEN StepOutcome(h, pec, NoStepResult, TRUE, TRUE, TRUE)
        ELSE StepOutcome(record_action(h, action, reply, action_result.success, current_app), pec, StepResult(action_result.success, finished, action, Or(action_result.message, action.params.return), action_result.requires_user_input, action_result.user_prompt, sid, step_num), FALSE, TRUE, TRUE)

\* _execute_step, from "Parse action" on
parse_and_act(h, pec, reply, text, confirm, dev, sid, step_num, current_app) ==
    LET p == parse(text)
        count == IF p.ok THEN 0 ELSE pec + 1
        action == IF p.ok THEN p.action ELSE WaitRetry
    IN  IF ~p.ok /\ count >= max_parse_errors
        THEN StepOutcome(h, count, StepResult(FALSE, TRUE, ParseAbort(count), "Task aborted: LLM response parsing failed repeatedly", FALSE, None, 0, step_num), FALSE, TRUE, FALSE)
        ELSE IF loop_ceiling_hit(h, action)
        THEN StepOutcome(loop_note(h, action), count, StepResult(FALSE, TRUE, LoopAbort(check_loop(Append(h.entries, HistoryEntry(Len(h.entries) + 1, action, None))).msg), "Task aborted: Agent stuck in loop", FALSE, None, 0, step_num), FALSE, TRUE, FALSE)
        ELSE execute_and_record(loop_note(h, action), count, reply, action, confirm, dev, sid, step_num, current_app)

\* PhoneAgent._execute_step: capture_ok / llm_ok say whether the screen capture and
\* the LLM request returned, text is the LLM's output
execute_step(h, pec, reply, capture_ok, llm_ok, text, confirm, dev, sid, current_app) ==
    LET step_num == step_count(h) + 1
        messages == build_context_messages(h)
    IN  IF ~capture_ok
        THEN StepOutcome(h, pec, StepResult(FALSE, TRUE, NoAction, "Failed to capture screen", FALSE, None, 0, step_num), FALSE, FALSE, FALSE)
        ELSE IF ~llm_ok
        THEN [StepOutcome(attach_reply(h, reply), pec, StepResult(FALSE, TRUE, NoAction, "LLM error", FALSE, None, 0, step_num), FALSE, TRUE, FALSE) EXCEPT !.request = messages]
        ELSE [parse_and_act(attach_reply(h, reply), pec, reply, text, confirm, dev, sid, step_num, current_app) EXCEPT !.request = messages]

-----------------------------------------------------------------------------
(* The LLM outputs of the model *)

\* the package in the foreground at the steps of the agent's runs
Launcher == "com.android.launcher"

LaunchSettings == Reply("tab", "LAUNCH", <<>>, "settings", None, None)

CompleteDone == Reply("tab", "COMPLETE", <<>>, None, "done", None)

FinishDone == Reply("finish", None, <<>>, None, "done", None)

AskUser == Reply("tab", "INFO", <<>>, "which one?", None, None)

AbortGiveUp == Reply("tab", "ABORT", <<>>, "cannot do it", None, None)

WaitOne == Reply("tab", "Wait", <<>>, "1", None, None)

PayClick == Reply("tab", "CLICK", <<Tok(500), Tok(500)>>, None, None, "pay")

ClickAt(x) == Reply("tab", "CLICK", <<Tok(x), Tok(500)>>, None, None, None)

TapAt(x) == Reply("do", "Tap", <<Tok(x), Tok(500)>>, None, None, None)

\* outputs that hold no action: an unknown action name in either syntax, a point
\* that is no pair of integers, prose, a call that never closes
UnknownName == Reply("tab", "FOO", <<>>, None, None, None)

UnknownCall == Reply("do", "Foo", <<>>, None, None, None)

BadPoint == Reply("tab", "CLICK", <<Junk>>, None, None, None)

Prose == Reply("tab", None, <<>>, None, None, None)

UnbalancedCall == Reply("unbalanced", None, <<>>, None, None, None)

GeneralReplies == {LaunchSettings, CompleteDone, AskUser, AbortGiveUp, UnknownName}

SensitiveReplies == {PayClick, FinishDone}

UnparsableReplies == {UnknownName, UnknownCall, BadPoint, Prose, UnbalancedCall}

WaitingReplies == {WaitOne, UnknownName}

TappingReplies == {ClickAt(500), ClickAt(540), TapAt(580)}

PressBack == Reply("tab", "BACK", <<>>, None, None, None)

PressHome == Reply("tab", "HOME", <<>>, None, None, None)

AlternatingReplies == {PressBack, PressHome}

\* the scripted LLM of a configuration: the outputs it can give
Outputs(llm) ==
    CASE llm = "general" -> GeneralReplies
      [] llm = "sensitive" -> SensitiveReplies
      [] llm = "unparsable" -> UnparsableReplies
      [] llm = "waiting" -> WaitingReplies
      [] llm = "tapping" -> TappingReplies
      [] llm = "alternating" -> AlternatingReplies

\* faults: whether the device, the screen capture and the LLM request can fail
AgentConfig(max_steps, reply_mode, llm, faults) == [max_steps |-> max_steps, reply_mode |-> reply_mode, session_dir |-> TRUE, llm |-> llm, faults |-> faults]

\* the configurations the model runs: short runs in an environment that can fail
\* against an LLM that may answer anything or that asks for a sensitive tap, short
\* runs against an LLM that never names an action, long runs against an LLM
\* that repeats itself, and longer runs against an LLM that goes back and forth
\* between two keys
Scenarios == {AgentConfig(MaxSteps, m, "general", TRUE) : m \in {"pause", "callback"}} \cup {AgentConfig(MaxSteps, "callback", "sensitive", TRUE)} \cup {AgentConfig(MaxSteps, "callback", "unparsable", FALSE)} \cup {AgentConfig(MaxLongSteps, "callback", l, FALSE) : l \in {"waiting", "tapping"}} \cup {AgentConfig(MaxAlternatingSteps, "callback", "alternating", FALSE)}

\* the loop iterations the model follows in one configuration, over all its runs:
\* one full run, and in the smaller configurations one more iteration
StepBudget ==
    IF config.llm = "alternating" THEN MaxAlternatingSteps
    ELSE IF config.llm \in {"waiting", "tapping"} THEN MaxLongSteps
    ELSE IF config.llm = "general" THEN MaxSteps
    ELSE MaxSteps + 1

\* what the user answers to a question
UserReplies == {"the first"}

\* no LLM output
NoReply == Reply("none", None, <<>>, None, None, None)

\* a loop iteration: kind says how far it got ("screen_off", "capture_failed",
\* "llm_failed", "answered"), text is the LLM output it got, executed says whether
\* the action handler ran, request holds the messages of the LLM request, backend
\* what the backend did with the calls of the handler
Turn(kind, text, executed, request, backend) == [kind |-> kind, text |-> text, executed |-> executed, request |-> request, backend |-> backend]

\* no iteration yet
NoTurn == Turn("none", NoReply, FALSE, <<>>, "ok")

\* what a run() call did with its session_id argument (0: none given): whether
\* resume_session found the session, the status the session had when run() was
\* called, and whether this is the first run() call on this PhoneAgent object
RunSession(sid, found) == [id |-> sid, found |-> found, status_before |-> IF sid \in DOMAIN sessions THEN sessions[sid].status ELSE None, first_run |-> result.outcome = "none"]

\* no run() call yet
NoSession == [id |-> 0, found |-> FALSE, status_before |-> None, first_run |-> FALSE]

-----------------------------------------------------------------------------
(* State machine *)

\* a function call with its input; output holds the outcome once done
Probe(fn, input) == [fn |-> fn, input |-> input, done |-> FALSE, output |-> None]

\* no function call is followed
NoProbe == Probe("none", None)

\* AgentThread.__init__ and the start of run(): the thread is at the top of the
\* agent's loop.  completed counts the steps that returned; acted and begun count
\* the device actions issued and the steps begun since Stop was asked for
AgentThread == [at |-> "loop", stop |-> FALSE, paused |-> FALSE, step |-> 0, completed |-> 0, action |-> Action(None, NoParams), result |-> ActionResult(FALSE, FALSE, None, FALSE, None), acted |-> 0, begun |-> 0]

\* no AgentThread was started
NoThread == [AgentThread EXCEPT !.at = "none"]

\* the agent after construction
Constructed ==
    /\ config \in Scenarios
    /\ disk = <<>>
    /\ sessions = <<>>
    /\ history = NoHistory
    /\ parse_error_count = 0
    /\ current_session_id = 0
    /\ pc = "idle"
    /\ session = NoSession
    /\ step = 0
    /\ user_reply = None
    /\ last_result = NoStepResult
    /\ result = NoRunResult
    /\ runs = 0
    /\ llm_calls = 0
    /\ total_steps = 0
    /\ turn = NoTurn

Init ==
    /\ thread = NoThread
    /\ probe = NoProbe
    /\ Constructed

\* run(task): a new task
RunNew(task) ==
    /\ pc = "idle"
    /\ runs < MaxRuns
    /\ LET st == create_session(Store(sessions, disk), task)
       IN  /\ sessions' = st.mem
           /\ disk' = st.files
           /\ current_session_id' = new_session_id(Store(sessions, disk))
    /\ history' = start_task(task)
    /\ session' = RunSession(0, FALSE)
    /\ pc' = "loop"
    /\ step' = 0
    /\ user_reply' = None
    /\ last_result' = NoStepResult
    /\ result' = NoRunResult
    /\ runs' = runs + 1
    /\ llm_calls' = 0
    /\ turn' = NoTurn
    /\ UNCHANGED <<thread, probe, config, parse_error_count, total_steps>>

\* run(task, session_id = sid, user_reply = reply)
RunResume(sid, reply) ==
    /\ pc = "idle"
    /\ runs < MaxRuns
    /\ LET st == resume_session(Store(sessions, disk), sid)
           found == resume_session_found(Store(sessions, disk), sid)
       IN  /\ sessions' = st.mem
           /\ disk' = st.files
           /\ session' = RunSession(sid, found)
           /\ current_session_id' = IF found THEN sid ELSE current_session_id
           /\ pc' = IF found THEN "loop" ELSE "idle"
           /\ result' = IF found THEN NoRunResult ELSE RunResult(FALSE, "Session not found", 0, 0, NoAction, "error")
    /\ step' = 0
    /\ user_reply' = reply
    /\ last_result' = NoStepResult
    /\ runs' = runs + 1
    /\ llm_calls' = 0
    /\ turn' = NoTurn
    /\ UNCHANGED <<thread, probe, config, history, parse_error_count, total_steps>>

\* "Build result" with the success of the last step as the success of the run
Return_step_success(h, res, stop_reason) == RunResult(res.present /\ res.success, IF res.present THEN res.message ELSE "No steps executed", step_count(h), current_session_id, IF res.present THEN res.action ELSE NoAction, stop_reason)

\* the end of run(): "Build result"
Return(h, res, stop_reason) == RunResult(stop_reason = "completed", IF res.present THEN res.message ELSE "No steps executed", step_count(h), current_session_id, IF res.present THEN res.action ELSE NoAction, stop_reason)

\* run(), after _execute_step returned res: the session store when the iteration ends
after_step(st, h, res) ==
    LET st1 == update_session(st, current_session_id, [step_count |-> res.step_count, history_summary |-> get_summary(h)])
    IN  IF res.finished /\ res.action.action_type = "COMPLETE" THEN complete_session(st1, current_session_id, res.message)
        ELSE IF res.finished /\ res.action.action_type = "ABORT" THEN abort_session(st1, current_session_id, res.message)
        ELSE IF ~res.finished /\ res.needs_user_input /\ config.reply_mode = "pause" THEN pause_session(st1, current_session_id, Or(res.user_prompt, ""))
        ELSE st1

\* the stop reason with a step limit that lets one more iteration through
step_verdict_one_more(res, n) ==
    IF res.finished /\ res.action.action_type = "COMPLETE" THEN "completed"
    ELSE IF res.finished /\ res.action.action_type = "ABORT" THEN "aborted"
    ELSE IF res.finished THEN "max_steps"
    ELSE IF res.needs_user_input /\ config.reply_mode = "pause" THEN "paused"
    ELSE IF n >= config.max_steps THEN "max_steps"
    ELSE "continue"

\* run(), after _execute_step returned res: the stop reason when the loop is left here,
\* "continue" when it goes on
step_verdict(res, n) ==
    IF res.finished /\ res.action.action_type = "COMPLETE" THEN "completed"
    ELSE IF res.finished /\ res.action.action_type = "ABORT" THEN "aborted"
    ELSE IF res.finished THEN "max_steps"
    ELSE IF res.needs_user_input /\ config.reply_mode = "pause" THEN "paused"
    ELSE IF n + 1 >= config.max_steps THEN "max_steps"
    ELSE "continue"

\* one iteration of the for loop of run() that finds the screen off
ScreenOff ==
    /\ pc = "loop"
    /\ config.faults
    /\ total_steps < StepBudget
    /\ pc' = "idle"
    /\ result' = Return(history, last_result, "screen_off")
    /\ total_steps' = total_steps + 1
    /\ turn' = Turn("screen_off", NoReply, FALSE, <<>>, "ok")
    /\ UNCHANGED <<thread, probe, config, disk, sessions, history, parse_error_count, current_session_id, session, step, user_reply, last_result, runs, llm_calls>>

\* one iteration of the for loop of run() with the screen on
LoopIter(capture_ok, llm_ok, text, confirm, dev, answer) ==
    /\ pc = "loop"
    /\ total_steps < StepBudget
    /\ \E o \in {execute_step(history, parse_error_count, IF step = 0 /\ Truthy(user_reply) THEN user_reply ELSE None, capture_ok, llm_ok, text, confirm, dev, current_session_id, Launcher)} :
           /\ history' = o.history
           /\ parse_error_count' = o.parse_error_count
           /\ llm_calls' = llm_calls + IF o.asked THEN 1 ELSE 0
           /\ turn' = IF ~capture_ok THEN Turn("capture_failed", NoReply, o.executed, o.request, "ok")
                      ELSE IF ~llm_ok THEN Turn("llm_failed", NoReply, o.executed, o.request, "ok")
                      ELSE Turn("answered", text, o.executed, o.request, dev)
           /\ IF o.raised
              THEN /\ pc' = "idle"
                   /\ result' = Raised("RuntimeError: No task started")
                   /\ UNCHANGED <<sessions, disk, step, user_reply, last_result>>
              ELSE \E st \in {after_step(Store(sessions, disk), o.history, o.res)}, verdict \in {step_verdict(o.res, step)} :
                   /\ sessions' = st.mem
                   /\ disk' = st.files
                   /\ last_result' = o.res
                   /\ pc' = IF verdict = "continue" THEN "loop" ELSE "idle"
                   /\ result' = IF verdict = "continue" THEN NoRunResult ELSE Return(o.history, o.res, verdict)
                   /\ step' = IF verdict = "continue" THEN step + 1 ELSE step
                   /\ user_reply' = IF o.res.needs_user_input THEN answer ELSE None
    /\ total_steps' = total_steps + 1
    /\ UNCHANGED <<thread, probe, config, current_session_id, session, runs>>

\* PhoneAgent.reset
Reset ==
    /\ pc = "idle"
    /\ history' = NoHistory
    /\ current_session_id' = 0
    /\ UNCHANGED <<thread, probe, config, disk, sessions, parse_error_count, pc, session, step, user_reply, last_result, result, runs, llm_calls, total_steps, turn>>

\* the process ends and a new PhoneAgent is constructed on the same storage_dir
Restart ==
    /\ pc = "idle"
    /\ sessions' = load_sessions(disk)
    /\ history' = NoHistory
    /\ parse_error_count' = 0
    /\ current_session_id' = 0
    /\ session' = NoSession
    /\ step' = 0
    /\ user_reply' = None
    /\ last_result' = NoStepResult
    /\ result' = NoRunResult
    /\ llm_calls' = 0
    /\ turn' = NoTurn
    /\ UNCHANGED <<thread, probe, config, disk, pc, runs, total_steps>>

\* the answers of the confirmation callback that make a difference: it is called
\* for a tap that carries a message
Confirms(text) == IF text.message # None THEN BOOLEAN ELSE {TRUE}

\* the outcomes of the backend call that make a difference: there is one for the
\* kinds that touch the device
BackendResults(text) == IF config.faults /\ text.action \in {"CLICK", "Tap", "LAUNCH"} THEN BackendOutcomes ELSE {"ok"}

\* the tasks handed to run(): a simple one, and against the LLM that waits also
\* one that has a plan
Tasks == IF config.llm = "waiting" THEN {TaskText, "change settings"} ELSE {TaskText}

Next ==
    \/ \E task \in Tasks : RunNew(task)
    \/ \E sid \in 1..MaxRuns, reply \in UserReplies \cup {None} : RunResume(sid, reply)
    \/ ScreenOff
    \/ config.faults /\ \E answer \in UserReplies : LoopIter(FALSE, TRUE, Prose, TRUE, "ok", answer)
    \/ config.faults /\ \E answer \in UserReplies : LoopIter(TRUE, FALSE, Prose, TRUE, "ok", answer)
    \/ \E text \in Outputs(config.llm), answer \in UserReplies : \E confirm \in Confirms(text), dev \in BackendResults(text) : LoopIter(TRUE, TRUE, text, confirm, dev, answer)
    \/ Reset
    \/ Restart

Spec == Init /\ [][Next]_vars

-----------------------------------------------------------------------------
(* Calls of the functions of the library, one per behaviour, on inputs      *)
(* drawn from bounded sets                                                  *)

Points == {<<500, 500>>, <<0, 1000>>}

Directions == {"UP", "DOWN", "LEFT", "RIGHT", "up", "DIAGONAL"}

\* the actions handed to ActionHandler.execute
ExecActions ==
    {Action("CLICK", [NoParams EXCEPT !.point = p, !.message = m]) : p \in Points \cup {<<>>}, m \in {None, "pay"}}
    \cup {Action(t, [NoParams EXCEPT !.point = p]) : t \in {"DOUBLE_TAP", "LONG_PRESS"}, p \in Points \cup {<<>>}}
    \cup {Action("SWIPE", [NoParams EXCEPT !.point1 = p, !.point2 = q]) : p \in {<<500, 500>>}, q \in Points \cup {<<>>}}
    \cup {Action("SWIPE", [NoParams EXCEPT !.point = p, !.direction = d]) : p \in Points \cup {<<>>}, d \in Directions}
    \cup {Action("TYPE", [NoParams EXCEPT !.point = p, !.value = "hello"]) : p \in Points \cup {<<>>}}
    \cup {Action("LAUNCH", [NoParams EXCEPT !.value = v]) : v \in {None, "settings"}}
    \cup {Action(t, NoParams) : t \in {"BACK", "HOME", "WAIT", "NOTE", "COMPLETE", "ABORT", "INFO", "TAKE_OVER"}}
    \cup {Action("COMPLETE", [NoParams EXCEPT !.return = "done"]), Action("ABORT", [NoParams EXCEPT !.value = "no such app"]), Action("INFO", [NoParams EXCEPT !.value = "which one?"]), Action("TAKE_OVER", [NoParams EXCEPT !.message = "log in"]), Action("NOTE", [NoParams EXCEPT !.message = "price is 5"])}

ExecProbes == {Probe("execute", [action |-> a, confirm |-> c, dev |-> d]) : a \in ExecActions, c \in BOOLEAN, d \in BackendOutcomes}

\* the texts handed to ActionParser.parse: the outputs of the scripted LLMs
ParseProbes == {Probe("parse", text) : text \in GeneralReplies \cup SensitiveReplies \cup UnparsableReplies \cup WaitingReplies \cup TappingReplies}

\* the parameters an action has
present_params(action) == {k \in {"point", "point1", "point2", "direction", "value", "return", "message"} : has(RawAction(action).params, k)}

\* the parameters the validation table names for a kind
table_params(type) == {REQUIRED_PARAMS(type)[i] : i \in 1..Len(REQUIRED_PARAMS(type))} \cup OPTIONAL_PARAMS(type) \cup (IF type = "SWIPE" THEN {"point", "point1", "point2", "direction"} ELSE {})

\* the actions serialized: every kind, with the parameters of the validation table
\* for it, that validate accepts
TableActions ==
    {a \in {Action(t, [point |-> p, point1 |-> p1, point2 |-> p2, direction |-> d, value |-> v, return |-> r, message |-> m]) :
                t \in ActionType, p \in {<<>>, <<500, 500>>}, p1 \in {<<>>, <<0, 1000>>}, p2 \in {<<>>, <<500, 500>>}, d \in {None, "UP", "up"}, v \in {None, "hello", "a  b"}, r \in {None, "done"}, m \in {None, "pay"}} :
        present_params(a) \subseteq table_params(a.action_type) /\ validate(RawAction(a)).ok}

SerializeProbes == {Probe("to_string", [action |-> a, format |-> f]) : a \in TableActions, f \in {"tab", "function"}}

\* the values of a point parameter handed to ActionSpace.validate
PointValues == {PointValue("absent", <<>>), PointValue("other", <<>>), PointValue("list", <<>>)} \cup {PointValue("list", c) : c \in {<<Tok(500), Tok(500)>>, <<Tok(0), Tok(max_coordinate)>>, <<Tok(max_coordinate + 1), Tok(0)>>, <<Tok(5), Tok(0 - 1)>>, <<Tok(5)>>, <<Tok(1), Tok(2), Tok(3)>>, <<Junk, Tok(2)>>}}

ValidateProbes ==
    {Probe("validate", [action_type |-> t, params |-> [point |-> p, point1 |-> p1, point2 |-> p2, direction |-> d, value |-> v, return |-> None, message |-> None]]) :
        t \in {"CLICK", "SWIPE", "TYPE", "BACK"}, p \in PointValues, p1 \in {PointValue("absent", <<>>), PointValue("other", <<>>), PointValue("list", <<Tok(0), Tok(1000)>>), PointValue("list", <<Tok(0), Tok(2000)>>)}, p2 \in {PointValue("absent", <<>>), PointValue("list", <<Tok(500), Tok(500)>>), PointValue("list", <<Tok(5)>>)}, d \in {None, "UP", "DIAGONAL"}, v \in {None, "hello"}}

TapOn(x, y) == Action("CLICK", [NoParams EXCEPT !.point = <<x, y>>])

SwipeUp == Action("SWIPE", [NoParams EXCEPT !.point1 = <<500, 800>>, !.point2 = <<500, 200>>])

\* the actions of the last entries of a history handed to LoopDetector.check_loop
RecentActions == {TapOn(500, 500), TapOn(520, 510), TapOn(480, 490), TapOn(540, 500), TapOn(460, 500), SwipeUp, Action("BACK", NoParams)} \cup {Action("TYPE", [NoParams EXCEPT !.value = v]) : v \in {"hello", "a  b"}}

\* the actions of the entries before them
EarlierActions == {SwipeUp, TapOn(500, 500), Action("TYPE", [NoParams EXCEPT !.value = "hello"])}

\* the entries of a history that recorded the actions
entries_of(actions) == [i \in 1..Len(actions) |-> HistoryEntry(i, actions[i], None)]

\* one action of each of five kinds
KindActions == {Action("BACK", NoParams), Action("HOME", NoParams), TapOn(500, 500), SwipeUp, Action("TYPE", [NoParams EXCEPT !.value = "hello"])}

\* histories of four entries of these kinds
KindProbes == {Probe("check_loop", entries_of(actions)) : actions \in [1..4 -> KindActions]}

\* histories of max_consecutive_same recent entries after at most MaxEarlier others
RecentProbes == {Probe("check_loop", entries_of(earlier \o recent)) : earlier \in UNION {[1..n -> EarlierActions] : n \in 0..MaxEarlier}, recent \in [1..max_consecutive_same -> RecentActions]}

LoopProbes == RecentProbes \cup KindProbes

\* a question to the user
AskWhich == Action("INFO", [NoParams EXCEPT !.value = "which one?"])

\* the entries of a history of taps and questions; answered says whether the
\* questions got their reply
history_of(actions, answered) == [i \in 1..Len(actions) |-> HistoryEntry(i, actions[i], IF answered /\ actions[i].action_type = "INFO" THEN "the first" ELSE None)]

\* managers of a window of at most MaxWindow steps with at most MaxEntries entries
ContextProbes == {Probe("build_context_messages", [history |-> [started |-> TRUE, entries |-> history_of(actions, answered), task_plan |-> NoPlan], max_history |-> k]) : actions \in UNION {[1..n -> {TapOn(500, 500), AskWhich}] : n \in 0..MaxEntries}, answered \in BOOLEAN, k \in 1..MaxWindow}

InitCalls ==
    /\ thread = NoThread
    /\ probe \in ExecProbes \cup ParseProbes \cup SerializeProbes \cup ValidateProbes \cup LoopProbes \cup ContextProbes
    /\ Constructed
    /\ config = AgentConfig(MaxSteps, "callback", "sensitive", TRUE)

\* the call is made and returns output
Returning(fn, output) ==
    /\ probe.fn = fn
    /\ ~probe.done
    /\ probe' = [probe EXCEPT !.done = TRUE, !.output = output]
    /\ UNCHANGED <<thread, agent_vars>>

\* ActionHandler.execute(action)
Execute ==
    /\ probe.fn = "execute"
    /\ Returning("execute", [result |-> execute(probe.input.action, probe.input.confirm, probe.input.dev), calls |-> execute_calls(probe.input.action, probe.input.confirm, probe.input.dev), takeover |-> takeover_calls(probe.input.action)])

\* ActionParser.parse(text)
Parse ==
    /\ probe.fn = "parse"
    /\ Returning("parse", parse(probe.input))

\* ActionParser.to_string(action, format), and ActionParser.parse of the string
Serialize ==
    /\ probe.fn = "to_string"
    /\ Returning("to_string", parse(to_string(probe.input.action, probe.input.format)))

\* ActionSpace.validate(action)
Validate ==
    /\ probe.fn = "validate"
    /\ Returning("validate", validate(probe.input))

\* LoopDetector.check_loop(entries)
CheckLoop ==
    /\ probe.fn = "check_loop"
    /\ Returning("check_loop", check_loop(probe.input))

\* HistoryManager(max_history_steps = max_history).build_context_messages(...)
BuildContext ==
    /\ probe.fn = "build_context_messages"
    /\ Returning("build_context_messages", build_context(probe.input.history, probe.input.max_history))

NextCalls ==
    \/ BuildContext
    \/ CheckLoop
    \/ Execute
    \/ Parse
    \/ Serialize
    \/ Validate

SpecCalls == InitCalls /\ [][NextCalls]_vars

-----------------------------------------------------------------------------
(* Properties *)

\* the step is a loop iteration of run() in which the LLM answered
Answered == total_steps' = total_steps + 1 /\ turn'.kind = "answered"

\* the step is a loop iteration in which the LLM's output failed to parse
ParseFailed == Answered /\ ~parse(turn'.text).ok

\* the actions of the history entries, in order
Actions(h) == [i \in 1..Len(h.entries) |-> h.entries[i].action]

\* the loop iteration recorded exactly the action a in the history
Recorded(a) == history'.started /\ Actions(history') = Append(Actions(history), a)

\* the loop iteration recorded nothing
NothingRecorded == Actions(history') = Actions(history)

\* the run goes on after the iteration, or ends only because the step limit is reached
GoesOn == pc' = "loop" \/ (result'.outcome = "returned" /\ result'.stop_reason = "max_steps" /\ step + 1 >= config.max_steps)

\* C1: every output that fails to parse increments the consecutive-parse-error
\* counter; on the 1st and 2nd consecutive failure a Wait is substituted, executed
\* and recorded and the run continues; on the 3rd no action is executed, an Abort
\* is synthesized and the run ends 'aborted'; a successful parse resets the counter
\* to 0; the counter always stays within 0..3.  (The Wait is looked at in runs whose
\* history was started.)
C1_ParseErrorCeiling ==
    [][/\ parse_error_count' \in 0..max_parse_errors
       /\ (Answered /\ parse(turn'.text).ok) => parse_error_count' = 0
       /\ ParseFailed => parse_error_count' = parse_error_count + 1
       /\ (ParseFailed /\ history.started /\ parse_error_count + 1 < max_parse_errors) => (turn'.executed /\ Recorded(WaitRetry) /\ last_result'.action = WaitRetry /\ GoesOn)
       /\ (ParseFailed /\ parse_error_count + 1 = max_parse_errors) => (~turn'.executed /\ NothingRecorded /\ pc' = "idle" /\ result'.stop_reason = "aborted" /\ result'.final_action = ParseAbort(max_parse_errors))]_vars

\* the action the last iteration's output stands for: the parsed one, or the Wait
\* substituted for an output that did not parse
Candidate == IF parse(turn.text).ok THEN parse(turn.text).action ELSE WaitRetry

\* the history ends with n entries that are all identical to the last one
EndsWithIdentical(n) == Len(history.entries) >= n /\ \A i \in (Len(history.entries) - n + 1)..Len(history.entries) : actions_identical(history.entries[i].action, Last(history.entries).action)

\* C2: a candidate action that is functionally identical to each of the last 5 or
\* more recorded entries is not executed: an Abort is synthesized and the run ends
\* 'aborted'; the history never ends with 6 entries all identical to the last one.
C2_LoopCeiling ==
    [][/\ (Answered /\ same_action_count(history.entries, Candidate') >= loop_abort_ceiling) => (~turn'.executed /\ NothingRecorded /\ pc' = "idle" /\ result'.stop_reason = "aborted" /\ result'.final_action.action_type = "ABORT" /\ ~result'.success)
       /\ ~EndsWithIdentical(loop_abort_ceiling + 1)']_vars

\* a run was aborted at a candidate identical to the last 5 entries, after different taps
C2_Witness ==
    /\ turn.kind = "answered"
    /\ parse(turn.text).ok
    /\ same_action_count(history.entries, Candidate) >= loop_abort_ceiling
    /\ \E i \in 1..Len(history.entries) : history.entries[i].action # Candidate
    /\ result.stop_reason = "aborted"
    /\ \E m \in {"same kind", "alternating", "exact repeat"} : result.final_action = LoopAbort(m)

\* the step is a loop iteration in which the screen capture or the LLM request raised
StepFailed == total_steps' = total_steps + 1 /\ turn'.kind \in {"capture_failed", "llm_failed"}

\* C3: when screen capture or the LLM call raises during a step, run() ends at that
\* step with stop_reason 'error', success false and a message naming the failure;
\* no action is executed or recorded in that step.
C3_FailureEndsInError ==
    [][StepFailed => (/\ pc' = "idle"
                      /\ result'.outcome = "returned"
                      /\ result'.stop_reason = "error"
                      /\ ~result'.success
                      /\ result'.message = (IF turn'.kind = "capture_failed" THEN "Failed to capture screen" ELSE "LLM error")
                      /\ ~turn'.executed
                      /\ NothingRecorded)]_vars

\* whether the text holds an action of the action space at all
holds_action(r) == r.syntax = "finish" \/ (r.action # None /\ normalize_action_type(r.action) # "ValueError" /\ (r.syntax = "do" \/ r.point = <<>> \/ parse_point_ok(r.point)))

\* the first run() call of the agent has returned, after at least one loop iteration
FirstRunEnded == runs = 1 /\ pc = "idle" /\ result.outcome = "returned" /\ turn.kind # "none"

\* C4: against an LLM whose every output holds no action (an unknown name, a
\* malformed point, or no action field and no call expression at all), run() ends
\* after exactly 3 LLM calls with stop_reason 'aborted' and a final Abort action
\* whose message refers to the repeated parse failure; it never ends 'completed'.
C4_AlwaysUnparsable ==
    ((\A r \in Outputs(config.llm) : ~holds_action(r)) /\ FirstRunEnded) =>
        /\ llm_calls = max_parse_errors
        /\ result.stop_reason = "aborted"
        /\ result.final_action = ParseAbort(max_parse_errors)
        /\ result.stop_reason # "completed"

\* a run() call has returned a RunResult
Returned == pc = "idle" /\ result.outcome = "returned"

\* the step is one in which a run() call returns a RunResult
Returns == Returned' /\ (pc = "loop" \/ runs' = runs + 1)

\* the kinds of the recorded actions, in order
Kinds(h) == [i \in 1..Len(h.entries) |-> h.entries[i].action.action_type]

\* what C5 says of a returned RunResult
SuccessIsCompletion ==
    /\ result.success <=> result.stop_reason = "completed"
    /\ result.stop_reason = "completed" <=> (last_result.present /\ last_result.action.action_type = "COMPLETE")
    /\ result.stop_reason = "completed" =>
          /\ sessions[result.session_id].status = "completed"
          /\ Last(history.entries).action = last_result.action
          /\ result.step_count = Len(history.entries)
          /\ session.id = 0 => Len(history.entries) = step + 1

\* C5: RunResult.success is true iff stop_reason is 'completed' iff the last
\* executed step's action is Complete; then the session status is 'completed' and
\* the history holds exactly one entry per executed step (every iteration that
\* executes an action appends one entry, the others none), the last one being the
\* Complete action.
C5_SuccessIffCompleted ==
    [][/\ Returns => SuccessIsCompletion'
       /\ (total_steps' = total_steps + 1 /\ result'.outcome # "raised") => (IF turn'.executed THEN Recorded(last_result'.action) ELSE NothingRecorded)]_vars

\* the scripted Launch-then-Complete run: two steps, one Launch and one Complete entry
C5_Witness ==
    /\ Returned
    /\ result.success
    /\ result.stop_reason = "completed"
    /\ result.step_count = 2
    /\ Kinds(history) = <<"LAUNCH", "COMPLETE">>
    /\ sessions[result.session_id].status = "completed"

\* the step is a loop iteration of run()
Iterates == total_steps' = total_steps + 1

\* the step is a loop iteration that calls _execute_step, and the call returns
Steps == Iterates /\ turn'.kind # "screen_off" /\ result'.outcome # "raised"

\* C6: run() terminates after at most max_steps executions of _execute_step: inside
\* the loop the iteration index stays below max_steps, and every iteration either
\* ends the run or raises the index by one; if no step finishes the task, pauses it
\* or finds the screen off, run() returns 'max_steps' after exactly max_steps steps;
\* an iteration that finds the screen off returns 'screen_off' without executing
\* the step.
C6_StepLimit ==
    [][/\ pc' = "loop" => step' < config.max_steps
       /\ Iterates => ((pc' = "loop" /\ step' = step + 1) \/ (pc' = "idle" /\ step' = step))
       /\ (Steps /\ ~last_result'.finished /\ ~(last_result'.needs_user_input /\ config.reply_mode = "pause")) =>
             IF step + 1 = config.max_steps THEN Returns /\ result'.stop_reason = "max_steps" /\ ~result'.success
             ELSE pc' = "loop"
       /\ (Iterates /\ turn'.kind = "screen_off") => (Returns /\ result'.stop_reason = "screen_off" /\ ~turn'.executed /\ NothingRecorded /\ llm_calls' = llm_calls /\ last_result' = last_result /\ sessions' = sessions)]_vars

\* a run used up its step limit: max_steps steps executed, none of them finishing
C6_Witness ==
    /\ Returned
    /\ result.stop_reason = "max_steps"
    /\ ~last_result.finished
    /\ step + 1 = config.max_steps
    /\ session.id = 0
    /\ Len(history.entries) = config.max_steps

\* the step is a loop iteration in reply mode Pause whose action is an Info, handed
\* to the action handler (which answers that user input is required)
AsksInPauseMode == Iterates /\ turn'.kind = "answered" /\ config.reply_mode = "pause" /\ Candidate'.action_type = "INFO" /\ turn'.executed

\* C7: with reply mode Pause, when a step's action is Info and the run is not
\* finished, run() sets the session status to 'paused' with pending_question equal
\* to the question, persists it, and returns stop_reason 'paused' without executing
\* any further step.
C7_PauseOnInfo ==
    [][AsksInPauseMode =>
          /\ Returns
          /\ result'.stop_reason = "paused"
          /\ result'.session_id = current_session_id
          /\ sessions'[current_session_id].status = "paused"
          /\ sessions'[current_session_id].pending_question = turn'.text.value
          /\ current_session_id \in DOMAIN disk'
          /\ disk'[current_session_id] = to_json(sessions'[current_session_id])
          /\ load_sessions(disk')[current_session_id].status = "paused"]_vars

\* the step is a run(session_id = sid) call, the first call on a PhoneAgent whose
\* SessionManager was constructed on the storage directory as it is now
ResumesAfterReload(sid) == pc = "idle" /\ result.outcome = "none" /\ sessions = load_sessions(disk) /\ runs' = runs + 1 /\ session'.id = sid

\* C8: create_session, then pause_session(q), then a new SessionManager on the same
\* directory, then resume_session yields a state whose status went from 'paused' to
\* 'running' and whose pending_question is None, with session_id, task, device_id
\* and step_count unchanged, and the persisted record equals the resumed state.
C8_PauseReloadResume ==
    [][\A sid \in DOMAIN disk : (ResumesAfterReload(sid) /\ disk[sid].status = "paused" /\ Truthy(disk[sid].pending_question)) =>
          /\ session'.found
          /\ sessions'[sid].status = "running"
          /\ sessions'[sid].pending_question = None
          /\ sessions'[sid].session_id = sid
          /\ sessions'[sid].task = disk[sid].task
          /\ sessions'[sid].device_id = disk[sid].device_id
          /\ sessions'[sid].step_count = disk[sid].step_count
          /\ sessions'[sid] = [sessions[sid] EXCEPT !.status = "running", !.pending_question = None]
          /\ load_sessions(disk')[sid] = sessions'[sid]
          /\ \A other \in DOMAIN disk \ {sid} : disk'[other] = disk[other]]_vars

\* a session created by run(), paused on a question after one step, reloaded by a
\* new process and resumed there
C8_Witness ==
    /\ pc = "loop"
    /\ step = 0
    /\ turn = NoTurn
    /\ session.found
    /\ session.first_run
    /\ session.status_before = "paused"
    /\ config.reply_mode = "pause"
    /\ sessions[session.id].status = "running"
    /\ sessions[session.id].pending_question = None
    /\ sessions[session.id].step_count = 1
    /\ sessions[session.id].history_summary = <<<<1, "INFO">>>>
    /\ disk[session.id] = to_json(sessions[session.id])

\* the current run() call resumes a session that was paused, on a PhoneAgent that
\* was created after a process restart and has no history in memory
ResumedAfterRestart == session.found /\ session.status_before = "paused" /\ session.first_run /\ ~history.started

\* C9: run(session_id = s, user_reply = r) on a paused session s, called on a
\* PhoneAgent created after a process restart, re-enters the step loop, records the
\* steps it executes and returns a RunResult; it never raises because no task was
\* started.
C9_ResumeAfterRestart ==
    [][/\ (ResumedAfterRestart /\ Iterates) => (result'.outcome # "raised" /\ (turn'.executed => Recorded(Candidate')))
       /\ (ResumedAfterRestart /\ pc = "loop" /\ pc' = "idle") => result'.outcome = "returned"]_vars

\* the step is a run(session_id = ...) call
Resumes == pc = "idle" /\ runs' = runs + 1 /\ session'.id # 0

\* the session named by the call exists and is paused
NamesPaused == session'.id \in DOMAIN sessions /\ sessions[session'.id].status = "paused"

\* C10: resume_session(id) returns the session state only if the session exists and
\* its status was 'paused'; for an unknown id and for a session that is running,
\* completed or aborted it returns None and changes nothing, so run(session_id = id)
\* on such a session executes no step.
C10_ResumeOnlyPaused ==
    [][Resumes => /\ session'.found <=> NamesPaused
                  /\ ~NamesPaused => (sessions' = sessions /\ disk' = disk /\ pc' = "idle" /\ result'.outcome = "returned" /\ result'.stop_reason = "error")]_vars

\* the request holds reply as a user message right after the assistant message of
\* the Info recorded as step n
HoldsReplyAfterInfo(request, n, reply) ==
    \E i \in 1..(Len(request) - 1) :
        /\ request[i].role = "assistant"
        /\ request[i].step = n
        /\ request[i].action.action_type = "INFO"
        /\ request[i + 1] = Message("user", "reply", n, NoAction, reply)

\* the step is a loop iteration that sends a request to the LLM
Requests == Iterates /\ turn'.kind \in {"answered", "llm_failed"}

\* the last step of the current run() call was an Info, and the reply to it was
\* obtained inside the loop
InfoAnsweredInLoop == pc = "loop" /\ config.reply_mode # "pause" /\ last_result.present /\ last_result.needs_user_input /\ Truthy(user_reply)

\* C11: in the reply modes that obtain the reply inside the loop, after an Info
\* step the reply is handed to the next step: the Info entry of the history gets
\* user_reply set to it, and the next LLM request contains it as a user message
\* right after the assistant message of the Info.
C11_ReplyReachesNextStep ==
    [][(InfoAnsweredInLoop /\ Requests) => /\ history'.entries[Len(history.entries)].user_reply = user_reply
                                           /\ HoldsReplyAfterInfo(turn'.request, Len(history.entries), user_reply)]_vars

\* the current run() call resumes a paused session with a user reply, on the
\* PhoneAgent that ran it and still holds its history, whose last entry is the Info
ResumedWithReply ==
    /\ pc = "loop"
    /\ step = 0
    /\ session.found
    /\ session.status_before = "paused"
    /\ Truthy(user_reply)
    /\ history.started
    /\ history.entries # <<>>
    /\ Last(history.entries).action.action_type = "INFO"

\* C12: when a paused run is resumed with a user reply on the agent that holds its
\* history, the reply is attached to the pending Info entry before the context of
\* the first LLM request is built, so that first request contains the reply.
C12_ReplyInFirstRequest ==
    [][(ResumedWithReply /\ Requests) => HoldsReplyAfterInfo(turn'.request, Len(history.entries), user_reply)]_vars

\* ActionHandler.execute was called and has returned
Executed == probe.fn = "execute" /\ probe.done

\* the action executed is a Tap at a point that carries a message
SensitiveTap == Executed /\ probe.input.action.action_type = "CLICK" /\ probe.input.action.params.message # None /\ probe.input.action.params.point # <<>>

\* the taps among the calls
Taps(calls) == SelectSeq(calls, LAMBDA c : c.name = "tap")

\* C13: for a Tap whose parameters include message, execute calls the confirmation
\* callback before any backend call; if the callback returns false no backend tap is
\* issued and the result is success = false, should_finish = true with a
\* cancellation message; if it returns true exactly one tap is issued, at the point
\* converted to pixels.
C13_ConfirmBeforeTap ==
    SensitiveTap => /\ probe.output.calls[1] = Call("confirmation_callback", <<>>, probe.input.action.params.message)
                    /\ ~probe.input.confirm => /\ probe.output.calls = <<Call("confirmation_callback", <<>>, probe.input.action.params.message)>>
                                                /\ probe.output.result = ActionResult(FALSE, TRUE, "User cancelled sensitive operation", FALSE, None)
                    /\ probe.input.confirm => /\ Len(probe.output.calls) = 2
                                               /\ Taps(probe.output.calls) = <<Call("tap", <<(probe.input.action.params.point[1] * ScreenSize[1]) \div 1000, (probe.input.action.params.point[2] * ScreenSize[2]) \div 1000>>, None)>>

\* a sensitive Tap was confirmed and the tap was issued
C13_Witness == SensitiveTap /\ probe.input.confirm /\ probe.input.dev = "ok" /\ probe.output.result.success /\ Len(Taps(probe.output.calls)) = 1

\* the step is a loop iteration whose action went to a handler that called the
\* backend, and the backend raised
BackendRaised == Answered /\ turn'.executed /\ turn'.backend = "raised" /\ Candidate'.params.message = None /\ execute_calls(Candidate', TRUE, "raised") # <<>>

\* C14: if the backend raises during the dispatch of a concrete action, execute does
\* not raise and returns success = false, should_finish = false; the control loop
\* then records the action in the history and goes on to the next step.
C14_BackendFailureGoesOn ==
    [][BackendRaised => /\ execute(Candidate', TRUE, "raised") = ActionResult(FALSE, FALSE, "Action failed", FALSE, None)
                        /\ result'.outcome # "raised"
                        /\ ~last_result'.success
                        /\ ~last_result'.finished
                        /\ Recorded(Candidate')
                        /\ GoesOn]_vars

\* the text names no action of the name table, or holds a call that is malformed
NamesNoAction(r) == r.syntax = "unbalanced" \/ (r.syntax # "finish" /\ (r.action = None \/ normalize_action_type(r.action) = "ValueError"))

\* C15: ActionParser.parse never returns an Action for text whose action name is not
\* in the name table or that is a malformed call: the outcome is a parse failure.
C15_InvalidTextFails == (probe.fn = "parse" /\ probe.done /\ NamesNoAction(probe.input)) => ~probe.output.ok

\* C16: for every action kind and every Action whose parameters satisfy the
\* validation table, parse(to_string(action, format)) has the same kind and the same
\* parameters as the action, for format 'tab' and for format 'function'.
C16_RoundTrip == (probe.fn = "to_string" /\ probe.done) => (probe.output.ok /\ probe.output.action = probe.input.action)

\* ActionSpace.validate was called and has returned
Validated == probe.fn = "validate" /\ probe.done

\* the value is a pair of integers within the range of coordinates
IsCoordinatePair(v) == v.kind = "list" /\ Len(v.coords) = 2 /\ \A i \in 1..2 : v.coords[i].isint /\ v.coords[i].n \in 0..max_coordinate

\* the point parameters of the action that are no coordinate pairs
BadPoints(action) == {k \in {"point", "point1", "point2"} : action.params[k].kind # "absent" /\ ~IsCoordinatePair(action.params[k])}

\* C17: ActionSpace.validate accepts a Swipe if and only if it has both point1 and
\* point2, or has point together with a direction that is one of UP, DOWN, LEFT,
\* RIGHT (the points it has being coordinate pairs).
C17_SwipeCombinations ==
    (Validated /\ probe.input.action_type = "SWIPE" /\ BadPoints(probe.input) = {})
        => (probe.output.ok <=> \/ probe.input.params.point1.kind # "absent" /\ probe.input.params.point2.kind # "absent"
                                \/ probe.input.params.point.kind # "absent" /\ probe.input.params.direction \in {"UP", "DOWN", "LEFT", "RIGHT"})

\* C18: ActionSpace.validate rejects, with a message naming the parameter, every
\* action whose point, point1 or point2 value is not a pair of exactly two integers
\* each within [0, 1000].
C18_BadPointRejected ==
    (Validated /\ BadPoints(probe.input) # {})
        => /\ ~probe.output.ok
           /\ \E k \in BadPoints(probe.input) : probe.output.msg \in {"Point " \o k \o " must have 2 coordinates", "Point " \o k \o " coordinates must be integers in [0, 1000]"}

\* LoopDetector.check_loop was called on a history whose last max_consecutive_same
\* entries share the kind, and has returned
CheckedSameKind(kind) == probe.fn = "check_loop" /\ probe.done /\ \A i \in 1..max_consecutive_same : Tail_n(probe.input, max_consecutive_same)[i].action.action_type = kind

\* the points of the last max_consecutive_same entries lie within the tolerance of
\* each other, in x and in y
PairwiseClose ==
    \A i, j \in 1..max_consecutive_same :
        /\ Abs(Tail_n(probe.input, max_consecutive_same)[i].action.params.point[1] - Tail_n(probe.input, max_consecutive_same)[j].action.params.point[1]) <= point_tolerance
        /\ Abs(Tail_n(probe.input, max_consecutive_same)[i].action.params.point[2] - Tail_n(probe.input, max_consecutive_same)[j].action.params.point[2]) <= point_tolerance

\* C19: for a history whose last 3 entries are Taps, check_loop flags a loop if and
\* only if the three tap points all lie within the tolerance of each other, pairwise.
C19_TapsPairwiseClose == CheckedSameKind("CLICK") => (probe.output.is_loop <=> PairwiseClose)

\* C20: check_loop flags every history whose last 3 entries share one action kind,
\* with two exceptions only: for Swipe it flags once the last 5 entries are all
\* Swipes, and for Tap it flags when the tap points are within tolerance.
C20_SameKindFlagged ==
    \A kind \in ActionType :
        CheckedSameKind(kind) =>
            CASE kind = "SWIPE" -> ((Len(probe.input) >= max_consecutive_swipes /\ \A i \in 1..max_consecutive_swipes : Tail_n(probe.input, max_consecutive_swipes)[i].action.action_type = "SWIPE") => probe.output.is_loop)
              [] kind = "CLICK" -> (PairwiseClose => probe.output.is_loop)
              [] OTHER -> probe.output.is_loop

-----------------------------------------------------------------------------
(* A planned task: start_task on a complex task, the operations of its     *)
(* plan, and the steps of the agent on it                                   *)

\* a step of the LLM's answer: a dict with or without the key id, or no dict
PlanSteps == {[dict |-> TRUE, has_id |-> TRUE, id |-> id, description |-> "find the setting"] : id \in {3}} \cup {[dict |-> d, has_id |-> FALSE, id |-> 0, description |-> "find the setting"] : d \in BOOLEAN}

\* the answers of the LLM to the decomposition prompt
PlanAnswers == {PlanAnswer(kind, <<>>) : kind \in {"raises", "no array", "no json"}} \cup {PlanAnswer("array", steps) : steps \in UNION {[1..n -> {st \in PlanSteps : st.dict}] : n \in 0..2}} \cup {PlanAnswer("array", <<st>>) : st \in PlanSteps}

\* start_task(task) without a client, and start_task(task, llm_client)
PlanProbes == {Probe("start_task", [task |-> task, use_llm |-> FALSE, answer |-> NoAnswer]) : task \in PlannedTasks} \cup {Probe("start_task", [task |-> "book flight", use_llm |-> TRUE, answer |-> answer]) : answer \in PlanAnswers}

InitPlan ==
    /\ thread = NoThread
    /\ probe \in PlanProbes
    /\ Constructed
    /\ config = AgentConfig(MaxSteps, "callback", "general", TRUE)

\* HistoryManager.start_task(task, llm_client); the output is the plan create_plan returned
StartTask ==
    /\ probe.fn = "start_task"
    /\ ~probe.done
    /\ history' = start_task_planned(probe.input.task, probe.input.use_llm, probe.input.answer)
    /\ probe' = [probe EXCEPT !.done = TRUE, !.output = create_plan(probe.input.task, probe.input.use_llm, probe.input.answer)]
    /\ UNCHANGED <<thread, config, disk, sessions, parse_error_count, current_session_id, pc, session, step, user_reply, last_result, result, runs, llm_calls, total_steps, turn>>

\* the plan of the task becomes plan
PlanBecomes(plan) ==
    /\ probe.done
    /\ history.task_plan.present
    /\ plan.notes + Len(history.entries) <= MaxPlanEntries
    /\ history' = [history EXCEPT !.task_plan = plan]
    /\ UNCHANGED <<thread, probe, config, disk, sessions, parse_error_count, current_session_id, pc, session, step, user_reply, last_result, result, runs, llm_calls, total_steps, turn>>

\* TaskPlan.mark_current_complete()
MarkCurrentComplete == PlanBecomes(mark_current_complete(history.task_plan))

\* TaskPlan.mark_current_failed()
MarkCurrentFailed == PlanBecomes(mark_current_failed(history.task_plan))

\* TaskPlan.skip_current()
SkipCurrent == PlanBecomes(skip_current(history.task_plan))

\* TaskPlan.insert_step(description), and insert_step(description, position = position)
InsertStep(given, position) == PlanBecomes(insert_step(history.task_plan, "return to desktop", given, position))

\* the LLM outputs at the steps of a planned task
PlanReplies == {LaunchSettings, ClickAt(500)}

\* PhoneAgent._execute_step on the planned task
PlanStep(text, dev, current_app) ==
    /\ probe.done
    /\ history.task_plan.notes + Len(history.entries) < MaxPlanEntries
    /\ \E o \in {execute_step(history, parse_error_count, None, TRUE, TRUE, text, TRUE, dev, current_session_id, current_app)} :
           /\ history' = o.history
           /\ parse_error_count' = o.parse_error_count
    /\ UNCHANGED <<thread, probe, config, disk, sessions, current_session_id, pc, session, step, user_reply, last_result, result, runs, llm_calls, total_steps, turn>>

NextPlan ==
    \/ StartTask
    \/ MarkCurrentComplete
    \/ MarkCurrentFailed
    \/ SkipCurrent
    \/ \E given \in BOOLEAN, position \in {0 - 1, 9} : InsertStep(given, position)
    \/ \E text \in PlanReplies, dev \in {"ok", "failed"} : \E current_app \in IF text = LaunchSettings THEN {"com.tencent.mm", Launcher} ELSE {Launcher} : PlanStep(text, dev, current_app)

SpecPlan == InitPlan /\ [][NextPlan]_vars

-----------------------------------------------------------------------------
(* The agent thread of the GUI (gui/main_window.py) and its Stop button.    *)
(* The GUI thread sets the flags at any moment; the agent thread runs       *)
(* PhoneAgent.run with the callbacks of AgentThread.run.  thread.at is      *)
(* where the agent thread is: "loop" at the top of the for loop, "llm" in   *)
(* the request to the LLM, "confirm" and "takeover" in the waits for the    *)
(* user inside ActionHandler.execute, "device" in the call to the backend,  *)
(* "on_step" at the call of _on_step after the step returned, "info" in the *)
(* wait for the user's reply to a question, "stopped" after _TaskStopped    *)
(* was caught and "finished" after run() returned.  The signals have a      *)
(* receiver, the window; the LLM answers every request with an action.      *)

MaxThreadSteps == 3

\* the actions the LLM asks for
ThreadActions == {TapOn(500, 500), Action("CLICK", [NoParams EXCEPT !.point = <<500, 500>>, !.message = "pay"]), Action("TAKE_OVER", NoParams), AskWhich, Action("COMPLETE", NoParams)}

\* the agent thread moves on
ThreadBecomes(t) ==
    /\ thread' = t
    /\ UNCHANGED <<probe, agent_vars>>

\* _execute_step returned res
step_returned(t, res) == [t EXCEPT !.at = "on_step", !.result = res, !.completed = @ + 1]

\* the top of the for loop of PhoneAgent.run: the screen check, and the call of _execute_step
ThreadLoop(screen_on) ==
    /\ thread.at = "loop"
    /\ ThreadBecomes(IF thread.step >= MaxThreadSteps \/ ~screen_on THEN [thread EXCEPT !.at = "finished"]
                     ELSE [thread EXCEPT !.at = "llm", !.step = @ + 1, !.begun = IF thread.stop THEN @ + 1 ELSE @])

\* the LLM answers with action and ActionHandler.execute(action) is entered
ThreadRespond(action) ==
    /\ thread.at = "llm"
    /\ ThreadBecomes(CASE action.action_type = "TAKE_OVER" -> [thread EXCEPT !.at = "takeover", !.action = action]
                       [] action.action_type = "CLICK" /\ action.params.message # None -> [thread EXCEPT !.at = "confirm", !.action = action]
                       [] execute_calls(action, TRUE, "ok") # <<>> -> [thread EXCEPT !.at = "device", !.action = action]
                       [] OTHER -> step_returned([thread EXCEPT !.action = action], execute(action, TRUE, "ok")))

\* _request_confirmation: the user answers ok
ThreadConfirm(ok) ==
    /\ thread.at = "confirm"
    /\ ThreadBecomes(IF ok THEN [thread EXCEPT !.at = "device"] ELSE step_returned(thread, execute(thread.action, FALSE, "ok")))

\* _request_confirmation sees the flag and raises _TaskStopped, which execute
\* catches as a failure of the handler
ThreadConfirmStopped ==
    /\ thread.at = "confirm"
    /\ thread.stop
    /\ ThreadBecomes(step_returned(thread, ActionResult(FALSE, FALSE, "Action failed", FALSE, None)))

\* _request_takeover: the user is done
ThreadTakeover ==
    /\ thread.at = "takeover"
    /\ ThreadBecomes(step_returned(thread, execute(thread.action, TRUE, "ok")))

\* _request_takeover sees the flag and raises _TaskStopped, which nothing catches
\* before AgentThread.run
ThreadTakeoverStopped ==
    /\ thread.at = "takeover"
    /\ thread.stop
    /\ ThreadBecomes([thread EXCEPT !.at = "stopped"])

\* the handler's call to the backend
ThreadDevice(dev) ==
    /\ thread.at = "device"
    /\ ThreadBecomes(step_returned([thread EXCEPT !.acted = IF thread.stop THEN @ + 1 ELSE @], execute(thread.action, TRUE, dev)))

\* where the agent thread is after a call of _on_step that looked at nothing
on_step_unchecked(t) ==
    CASE t.result.should_finish -> "finished"
      [] t.result.requires_user_input -> "info"
      [] OTHER -> "loop"

\* where the agent thread is after _on_step(result) and the checks of run() that follow it
on_step(t) ==
    CASE t.stop -> "stopped"
      [] t.result.should_finish -> "finished"
      [] t.result.requires_user_input -> "info"
      [] OTHER -> "loop"

\* _on_step(result): waits while paused and not stopped
ThreadOnStep ==
    /\ thread.at = "on_step"
    /\ ~(thread.paused /\ ~thread.stop)
    /\ ThreadBecomes([thread EXCEPT !.at = on_step(thread)])

\* _request_user_input: the user replies
ThreadInfo ==
    /\ thread.at = "info"
    /\ ThreadBecomes([thread EXCEPT !.at = "loop"])

\* _request_user_input sees the flag and raises _TaskStopped
ThreadInfoStopped ==
    /\ thread.at = "info"
    /\ thread.stop
    /\ ThreadBecomes([thread EXCEPT !.at = "stopped"])

\* the thread is running
Running == thread.at \notin {"none", "stopped", "finished"}

\* AgentThread.stop(), called by the GUI thread
Stop ==
    /\ Running
    /\ ~thread.stop
    /\ ThreadBecomes([thread EXCEPT !.stop = TRUE])

\* AgentThread.pause()
Pause ==
    /\ Running
    /\ ~thread.paused
    /\ ThreadBecomes([thread EXCEPT !.paused = TRUE])

\* AgentThread.resume()
Resume ==
    /\ Running
    /\ thread.paused
    /\ ThreadBecomes([thread EXCEPT !.paused = FALSE])

InitThread ==
    /\ thread = AgentThread
    /\ probe = NoProbe
    /\ Constructed

\* the steps the agent thread takes by itself
AgentSteps ==
    \/ \E screen_on \in BOOLEAN : ThreadLoop(screen_on)
    \/ \E action \in ThreadActions : ThreadRespond(action)
    \/ ThreadConfirmStopped
    \/ ThreadTakeoverStopped
    \/ \E dev \in BackendOutcomes : ThreadDevice(dev)
    \/ ThreadOnStep
    \/ ThreadInfoStopped

\* the steps of the user and of the GUI thread
UserSteps ==
    \/ \E ok \in BOOLEAN : ThreadConfirm(ok)
    \/ ThreadTakeover
    \/ ThreadInfo
    \/ Stop
    \/ Pause
    \/ Resume

NextThread == AgentSteps \/ UserSteps

\* the agent thread is scheduled as long as it can take a step
SpecThread == InitThread /\ [][NextThread]_vars /\ WF_vars(AgentSteps)

-----------------------------------------------------------------------------
(* The alternation check *)

\* the kinds of the last four entries of the history check_loop was called on
LastFourKinds == [i \in 1..4 |-> Tail_n(probe.input, 4)[i].action.action_type]

\* check_loop returned for a history of at least 4 entries whose last two kinds differ
CheckedEndingInTwoKinds == probe.fn = "check_loop" /\ probe.done /\ Len(probe.input) >= 4 /\ LastFourKinds[3] # LastFourKinds[4]

\* C21: for a history of at least 4 entries whose last two entries have different
\* kinds, check_loop flags a loop if and only if the last four kinds are A,B,A,B
\* with A different from B
C21_AlternationFlagged ==
    CheckedEndingInTwoKinds => (probe.output.is_loop <=> (LastFourKinds[1] = LastFourKinds[3] /\ LastFourKinds[2] = LastFourKinds[4] /\ LastFourKinds[1] # LastFourKinds[2]))

\* [Back, Click, Back, Click] was flagged
C21_Witness == CheckedEndingInTwoKinds /\ LastFourKinds = <<"BACK", "CLICK", "BACK", "CLICK">> /\ Len(probe.input) = 4 /\ probe.output.is_loop

-----------------------------------------------------------------------------
(* The entries of the history *)

\* C22: in every reachable state of a task the i-th history entry, counted from 1,
\* has step = i
C22_StepIsIndex == \A i \in 1..Len(history.entries) : history.entries[i].step = i

\* a task has recorded two steps
C22_Witness == history.started /\ Len(history.entries) >= 2 /\ turn.executed

\* C23 as stated: once an entry has been appended, no step of the control loop
\* changes any of its fields
C23_EntriesImmutable ==
    [][Iterates => \A i \in 1..Len(history.entries) : history'.entries[i] = history.entries[i]]_vars

\* the reply handed to the step _execute_step is called for
HandedReply == IF step = 0 /\ Truthy(user_reply) THEN user_reply ELSE None

\* C23, amended: once an entry has been appended, no step of the control loop
\* changes its step, its action or its sub_task_id; user_reply changes on the last
\* entry only, to the reply handed to the step
C23_EntriesKeepStepAndAction ==
    [][Iterates => \A i \in 1..Len(history.entries) :
                      /\ [history'.entries[i] EXCEPT !.user_reply = history.entries[i].user_reply] = history.entries[i]
                      /\ history'.entries[i].user_reply # history.entries[i].user_reply => (i = Len(history.entries) /\ history'.entries[i].user_reply = HandedReply)]_vars

\* a resumed run attached the reply to the Info entry and recorded a step after it
C23_Witness ==
    /\ session.found
    /\ turn.executed
    /\ \E i \in 1..(Len(history.entries) - 1) : history.entries[i].action.action_type = "INFO" /\ Truthy(history.entries[i].user_reply)

-----------------------------------------------------------------------------
(* The messages of the context *)

\* build_context_messages has returned
BuiltContext == probe.fn = "build_context_messages" /\ probe.done

\* the messages of the history in the context built: all but the system message
\* and the message of the current turn
Rendered == SubSeq(probe.output, 2, Len(probe.output) - 1)

\* the observations among them
Observations == SelectSeq(Rendered, LAMBDA m : m.kind = "observation")

\* the number of entries rendered
RenderedCount == IF Len(probe.input.history.entries) <= probe.input.max_history THEN Len(probe.input.history.entries) ELSE probe.input.max_history

\* C24: to_messages(max_history) renders exactly the last min(n, max_history) of
\* the n entries, in order, each as a user message followed by an assistant
\* message; the first rendered user message starts with the task and carries the
\* marker of truncated steps if and only if n > max_history; no rendered message
\* carries an image, so the context holds exactly one image, on the message of the
\* current turn
C24_ContextOfLastEntries ==
    BuiltContext =>
        LET n == Len(probe.input.history.entries)
        IN  /\ Len(Observations) = RenderedCount
            /\ \A j \in 1..RenderedCount : Observations[j].step = n - RenderedCount + j
            /\ \A i \in 1..Len(Rendered) :
                   /\ Rendered[i].kind \in {"observation", "action", "reply"}
                   /\ ~Rendered[i].image
                   /\ Rendered[i].kind = "observation" =>
                          /\ Rendered[i].role = "user"
                          /\ i < Len(Rendered)
                          /\ Rendered[i + 1].role = "assistant"
                          /\ Rendered[i + 1].kind = "action"
                          /\ Rendered[i + 1].step = Rendered[i].step
                          /\ Rendered[i + 1].action = probe.input.history.entries[Rendered[i].step].action
                   /\ Rendered[i].kind # "observation" => i > 1
                   /\ Rendered[i].task <=> i = 1
                   /\ Rendered[i].truncated <=> (i = 1 /\ n > probe.input.max_history)
            /\ Cardinality({i \in 1..Len(probe.output) : probe.output[i].image}) = 1
            /\ Last(probe.output).kind = "current"
            /\ Last(probe.output).image

\* a history longer than the window was rendered with the marker
C24_Witness == BuiltContext /\ Len(probe.input.history.entries) > probe.input.max_history /\ Len(Observations) = probe.input.max_history /\ Rendered[1].truncated

-----------------------------------------------------------------------------
(* The task plan *)

\* the task has a plan
Planned == probe.fn = "start_task" /\ probe.done /\ history.task_plan.present

\* C25: in every state reachable from a created plan by mark_current_complete,
\* skip_current, mark_current_failed and insert_step, 0 <= current_step <=
\* len(sub_tasks); mark_current_complete and skip_current at current_step =
\* len(sub_tasks) change nothing
C25_CurrentStepInRange ==
    Planned =>
        /\ 0 <= history.task_plan.current_step
        /\ history.task_plan.current_step <= Len(history.task_plan.sub_tasks)
        /\ history.task_plan.current_step = Len(history.task_plan.sub_tasks) =>
               /\ mark_current_complete(history.task_plan) = history.task_plan
               /\ skip_current(history.task_plan) = history.task_plan

\* every sub-task of a plan with an inserted step has been completed or skipped
C25_Witness ==
    /\ Planned
    /\ history.task_plan.notes > 0
    /\ Len(history.task_plan.sub_tasks) >= 3
    /\ history.task_plan.current_step = Len(history.task_plan.sub_tasks)

\* C26: in every state reachable from create_plan by mark_current_complete,
\* skip_current and insert_step the sub-task ids are contiguous and 1-based
C26_IdsContiguous ==
    Planned => \A i \in 1..Len(history.task_plan.sub_tasks) : history.task_plan.sub_tasks[i].id = i

\* create_plan was called with a client on a task no template matches, and the
\* decomposition failed: the request raised, the answer held no array, or the
\* array was no JSON
DecompositionFailed ==
    /\ probe.fn = "start_task"
    /\ probe.done
    /\ probe.input.use_llm
    /\ matching_template(probe.input.task) = <<>>
    /\ probe.input.answer.kind \in {"raises", "no array", "no json"}

\* C27: when no template matches and the LLM decomposition fails, create_plan
\* returns the generic two-step plan, the plan it returns when no LLM is used
C27_FallbackIsGenericPlan ==
    DecompositionFailed => probe.output = create_plan(probe.input.task, FALSE, NoAnswer)

\* the step is a step of the agent that records its action while the plan has a
\* current sub-task
RecordsOnSubTask == Len(history'.entries) = Len(history.entries) + 1 /\ has_current(history.task_plan)

\* C28: with a task plan, whenever a step has been recorded and three or more recent
\* entries are recorded against the current sub-task id, the plan advances to the
\* next sub-task in that step
C28_ThreeActionsAdvance ==
    [][(RecordsOnSubTask /\ same_subtask_actions(history'.entries, current_sub_task(history.task_plan).id) >= same_subtask_threshold)
          => history'.task_plan.current_step = history.task_plan.current_step + 1]_vars

\* the action executed is one of the five that execute answers without the device
ControlAction == Executed /\ probe.input.action.action_type \in {"COMPLETE", "ABORT", "INFO", "TAKE_OVER", "NOTE"}

\* C30: execute issues no device-backend call for Complete, Abort, Info, TakeOver and
\* Note: Complete and Abort return should_finish = true with a message, Info returns
\* requires_user_input = true and should_finish = false with the question as
\* user_prompt, TakeOver calls the takeover callback exactly once and returns
\* should_finish = false, Note returns success without any effect.
C30_ControlActionsLeaveDeviceAlone ==
    ControlAction =>
        /\ probe.output.calls = <<>>
        /\ probe.input.action.action_type \in {"COMPLETE", "ABORT"} => probe.output.result.should_finish /\ probe.output.result.message # None
        /\ probe.input.action.action_type = "INFO" =>
               /\ probe.output.result.requires_user_input
               /\ ~probe.output.result.should_finish
               /\ probe.input.action.params.value # None => probe.output.result.user_prompt = probe.input.action.params.value
        /\ probe.input.action.action_type = "TAKE_OVER" => Len(probe.output.takeover) = 1 /\ ~probe.output.result.should_finish
        /\ probe.input.action.action_type # "TAKE_OVER" => probe.output.takeover = <<>>
        /\ probe.input.action.action_type = "NOTE" => probe.output.result = ActionResult(TRUE, FALSE, None, FALSE, None)

\* a question was executed while the backend would have raised at any call
C30_Witness == ControlAction /\ probe.input.action = AskWhich /\ probe.input.dev = "raised" /\ probe.output.result.user_prompt = "which one?"

\* AgentThread.run caught _TaskStopped
Stopped == thread.at = "stopped"

\* C29 as stated: the stop flag is observed only between steps, so every step that
\* began has returned when the thread stops, and at most one device action was
\* issued after Stop was asked for.
C29_StopSeenBetweenStepsOnly == Stopped => thread.completed = thread.step /\ thread.acted <= 1

\* C29: when Stop is asked for on a running AgentThread, a request to the LLM or a
\* call to the backend in flight is never interrupted; the flag is observed at
\* _on_step after each step and in the waits for the user, of which only the wait
\* of a TakeOver leaves its step without a return; at most one more step begins
\* and at most one more device action is issued after the request; and the thread
\* then terminates.
C29_StopCutsTheRun ==
    /\ [](thread.acted <= 1 /\ thread.begun <= 1)
    /\ [](Stopped => thread.stop /\ (thread.completed = thread.step \/ thread.action.action_type = "TAKE_OVER"))
    /\ [][thread.at \in {"llm", "device"} => thread'.at # "stopped"]_vars
    /\ (thread.stop ~> ~Running)

\* Stop was asked for between two steps, one more step began and tapped, and the
\* thread stopped at its _on_step
C29_Witness == Stopped /\ thread.begun = 1 /\ thread.acted = 1 /\ thread.completed = thread.step

\* the step is a loop iteration in which the pre-execution loop check fired on the
\* candidate action while fewer than 5 of the last entries were identical to it
LoopFiredBelowCeiling ==
    /\ Answered
    /\ history.started
    /\ history.entries # <<>>
    /\ ~(ParseFailed /\ parse_error_count + 1 >= max_parse_errors)
    /\ check_loop(Append(history.entries, HistoryEntry(Len(history.entries) + 1, Candidate', None))).is_loop
    /\ same_action_count(history.entries, Candidate') < loop_abort_ceiling

\* the number of entries at the end of entries at whose step the loop check fired
RECURSIVE fired_streak(_)
fired_streak(entries) ==
    IF Len(entries) < 2 \/ ~check_loop(entries).is_loop THEN 0
    ELSE 1 + fired_streak(SubSeq(entries, 1, Len(entries) - 1))

\* C31: when the loop detector fires below the hard ceiling the action is still
\* executed and recorded; if the detector keeps firing step after step, the run is
\* ended by an Abort after a bounded number of such steps, whatever max_steps is:
\* no history ends with more fired steps than the hard ceiling allows repetitions.
C31_LoopFiringIsBounded ==
    [][/\ LoopFiredBelowCeiling => (turn'.executed /\ Recorded(Candidate'))
       /\ fired_streak(history'.entries) <= loop_abort_ceiling]_vars

\* the step is a loop iteration that ended the run with an Abort the action
\* handler never saw: the Abort synthesized at the parse-error or the loop ceiling
SynthesizedAbort == Answered /\ ~turn'.executed /\ pc' = "idle" /\ result'.outcome = "returned" /\ result'.final_action.action_type = "ABORT"

\* C32 as stated: the loop check never leaves its scratch entry in the history (a
\* step records its action once or not at all), and a step that ends with a
\* synthesized Abort leaves the history entries, the plan's current_step and the
\* device exactly as they were.
C32_AbortStepChangesNothing ==
    [][/\ Answered => (Recorded(Candidate') \/ NothingRecorded)
       /\ SynthesizedAbort => /\ history'.entries = history.entries
                               /\ history'.task_plan.current_step = history.task_plan.current_step
                               /\ ~turn'.executed]_vars

\* C32, amended: a step records its action once or not at all, and a step that ends
\* with a synthesized Abort executes nothing and leaves the plan's sub-tasks and
\* current_step and the step, action and sub_task_id of every entry as they
\* were; it may set user_reply of the last entry to the reply it was handed, and
\* at the loop ceiling it adds one note to the plan.
C32_AbortStepKeepsActionsAndPlan ==
    [][/\ Answered => (Recorded(Candidate') \/ NothingRecorded)
       /\ SynthesizedAbort => /\ Len(history'.entries) = Len(history.entries)
                               /\ \A i \in 1..Len(history.entries) :
                                      /\ [history'.entries[i] EXCEPT !.user_reply = history.entries[i].user_reply] = history.entries[i]
                                      /\ history'.entries[i].user_reply # history.entries[i].user_reply => (i = Len(history.entries) /\ history'.entries[i].user_reply = HandedReply)
                               /\ [history'.task_plan EXCEPT !.notes = history.task_plan.notes] = history.task_plan
                               /\ history'.task_plan.notes \in {history.task_plan.notes, history.task_plan.notes + 1}
                               /\ ~turn'.executed]_vars

\* a run on a task with a plan that had moved on to its second sub-task was ended
\* at the loop ceiling, and the loop was noted in the plan
C32_Witness ==
    /\ turn.kind = "answered"
    /\ ~turn.executed
    /\ result.stop_reason = "aborted"
    /\ \E m \in {"same kind", "alternating", "exact repeat"} : result.final_action = LoopAbort(m)
    /\ history.task_plan.present
    /\ history.task_plan.current_step > 0
    /\ history.task_plan.notes > 0
    /\ Len(history.entries) = loop_abort_ceiling

\* ---------------------------------------------------------------------------
\* A SessionManager with a storage directory, under any sequence of its
\* operations.  probe holds the last operation (fn), the session it was made on
\* (output) and the number of operations made (input).
\* ---------------------------------------------------------------------------

Question == "which account?"

\* the keyword arguments of update_session that are not None
UpdateArgs ==
    [step_count : {1}] \cup [status : {"running", "paused", "completed"}] \cup [pending_question : {Question}]
    \cup [step_count : {1}, history_summary : {<<<<1, "TAP">>>>}, screen_size : {<<"tuple", 1080, 1920>>}]

Operation(fn, sid) == [fn |-> fn, input |-> probe.input + 1, done |-> TRUE, output |-> sid]

\* the operation leads from the store of this state to st
Becomes(fn, sid, st) ==
    /\ probe.input < MaxOps
    /\ sessions' = st.mem
    /\ disk' = st.files
    /\ probe' = Operation(fn, sid)
    /\ UNCHANGED <<thread, config, history, parse_error_count, current_session_id, pc, session, step, user_reply, last_result, result, runs, llm_calls, total_steps, turn>>

\* the sessions an operation can name: the ones there are and one there is not
Named == 1..MaxSessions

SmCreate ==
    /\ Cardinality(DOMAIN sessions) < MaxSessions
    /\ Becomes("create_session", new_session_id(Store(sessions, disk)), create_session(Store(sessions, disk), TaskText))

\* update_session and pause_session raise ValueError for a session that is not there
SmUpdate == \E sid \in DOMAIN sessions, given \in UpdateArgs : Becomes("update_session", sid, update_session(Store(sessions, disk), sid, given))

SmPause == \E sid \in DOMAIN sessions : Becomes("pause_session", sid, pause_session(Store(sessions, disk), sid, Question))

SmResume == \E sid \in Named : Becomes("resume_session", sid, resume_session(Store(sessions, disk), sid))

SmComplete == \E sid \in Named, message \in {None, "done"} : Becomes("complete_session", sid, complete_session(Store(sessions, disk), sid, message))

SmAbort == \E sid \in Named : Becomes("abort_session", sid, abort_session(Store(sessions, disk), sid, "failed"))

SmDelete == \E sid \in Named : Becomes("delete_session", sid, delete_session(Store(sessions, disk), sid))

SmCleanup == \E old \in SUBSET Named : Becomes("cleanup_old_sessions", 0, cleanup_old_sessions(Store(sessions, disk), old))

InitSessions ==
    /\ thread = NoThread
    /\ probe = [fn |-> "SessionManager", input |-> 0, done |-> TRUE, output |-> 0]
    /\ Constructed
    /\ config = AgentConfig(MaxSteps, "callback", "sensitive", TRUE)

NextSessions ==
    \/ SmCreate
    \/ SmUpdate
    \/ SmPause
    \/ SmResume
    \/ SmComplete
    \/ SmAbort
    \/ SmDelete
    \/ SmCleanup

SpecSessions == InitSessions /\ [][NextSessions]_vars

\* C34: after any sequence of create_session, update_session, pause_session,
\* resume_session, complete_session, abort_session, delete_session and
\* cleanup_old_sessions on a SessionManager with a storage directory, a
\* SessionManager constructed on the same directory holds the same session ids,
\* each with the same status, step_count, history_summary and pending_question.
C34_ReloadedManagerAgrees ==
    (config.session_dir /\ probe.fn \in {"SessionManager", "create_session", "update_session", "pause_session", "resume_session", "complete_session", "abort_session", "delete_session", "cleanup_old_sessions"}) =>
        /\ DOMAIN load_sessions(disk) = DOMAIN sessions
        /\ \A sid \in DOMAIN sessions :
              /\ load_sessions(disk)[sid].session_id = sid
              /\ load_sessions(disk)[sid].status = sessions[sid].status
              /\ load_sessions(disk)[sid].step_count = sessions[sid].step_count
              /\ load_sessions(disk)[sid].history_summary = sessions[sid].history_summary
              /\ load_sessions(disk)[sid].pending_question = sessions[sid].pending_question

\* two sessions were created, one was paused on a question, the other completed and
\* then removed by the cleanup
C34_Witness ==
    /\ probe.fn = "cleanup_old_sessions"
    /\ probe.input = MaxOps
    /\ DOMAIN sessions = {1}
    /\ DOMAIN disk = {1}
    /\ sessions[1].status = "paused"
    /\ sessions[1].pending_question = Question
    /\ disk[1].pending_question = Question

\* C35: in every state reachable through create, update, pause, resume, complete
\* and abort a session's pending_question is set only while its status is
\* 'paused': for 'running', 'completed' and 'aborted' it is None.
C35_QuestionOnlyWhilePaused ==
    probe.fn \in {"SessionManager", "create_session", "update_session", "pause_session", "resume_session", "complete_session", "abort_session"} =>
        \A sid \in DOMAIN sessions : sessions[sid].status \in {"running", "completed", "aborted"} => sessions[sid].pending_question = None

\* ---------------------------------------------------------------------------
\* The extraction of a call from the text of an LLM output
\* ---------------------------------------------------------------------------

\* the characters after the marker
BodyChars == {"(", ")", "\"", "'", "\\", "x"}

\* texts with two markers, and short texts without a marker
OtherTexts == {<<Marker, c, Marker, d>> : c, d \in BodyChars} \cup UNION {[1..n -> BodyChars] : n \in 0..2}

\* a text with a call of at most MaxBody characters after the marker, alone or
\* after other text, or one of OtherTexts
InitText ==
    /\ thread = NoThread
    /\ \/ \E prefix \in {<<>>, <<"x">>}, n \in 0..MaxBody : \E body \in [1..n -> BodyChars] :
              probe = Probe("extract_balanced_call", prefix \o <<Marker>> \o body)
       \/ \E text \in OtherTexts : probe = Probe("extract_balanced_call", text)
    /\ Constructed
    /\ config = AgentConfig(MaxSteps, "callback", "sensitive", TRUE)

\* ActionParser._extract_balanced_call(text, marker), and the path parse takes on text
ExtractCall ==
    \E call \in {extract_balanced_call(probe.input)} :
        Returning("extract_balanced_call", [call |-> call, path |-> IF call # <<>> THEN "function call" ELSE "tab format"])

NextText == ExtractCall

SpecText == InitText /\ [][NextText]_vars

\* _extract_balanced_call was called on a text and has returned
Extracted == probe.fn = "extract_balanced_call" /\ probe.done

\* where the text is after its first k characters: outside a string ("out"),
\* in a string opened by q (<<"in", q>>), or there after a backslash (<<"esc", q>>)
RECURSIVE quote_state(_, _, _)
quote_state(text, start, k) ==
    IF k < start THEN <<"out", None>>
    ELSE LET before == quote_state(text, start, k - 1)
         IN  CASE before[1] = "esc" -> <<"in", before[2]>>
               [] before[1] = "in" /\ text[k] = "\\" -> <<"esc", before[2]>>
               [] before[1] = "in" /\ text[k] = before[2] -> <<"out", None>>
               [] before[1] = "in" -> before
               [] text[k] \in {"\"", "'"} -> <<"in", text[k]>>
               [] OTHER -> before

\* the positions from start to k that hold a parenthesis of chars outside every string
Outside(text, start, k, chars) == {j \in start..k : text[j] \in chars /\ quote_state(text, start, j - 1)[1] = "out"}

\* the positions of the parentheses that close the call opened at start: the
\* closing parentheses outside strings up to which as many were closed as opened
Closers(text, start) == {k \in start..Len(text) : k \in Outside(text, start, k, {")"}) /\ Cardinality(Outside(text, start, k, {"(", Marker})) = Cardinality(Outside(text, start, k, {")"}))}

\* C33: _extract_balanced_call returns exactly the substring from the marker to the
\* parenthesis that closes the call, counting only parentheses outside single- or
\* double-quoted strings, a backslash-escaped quote not ending the string, also
\* when the call is surrounded by other text; when the parentheses never balance
\* (or there is no marker) it returns no call and parse goes to the tab format.
C33_BalancedCallExtracted ==
    Extracted =>
        LET start == find_marker(probe.input)
        IN  /\ (start # 0 /\ Closers(probe.input, start) # {}) =>
                   /\ \E k \in Closers(probe.input, start) :
                          /\ \A j \in Closers(probe.input, start) : k <= j
                          /\ probe.output.call = SubSeq(probe.input, start, k)
                   /\ probe.output.path = "function call"
            /\ (start = 0 \/ Closers(probe.input, start) = {}) => (probe.output.call = <<>> /\ probe.output.path = "tab format")

\* a call after other text whose string holds an escaped quote
C33_Witness ==
    /\ Extracted
    /\ probe.input = <<"x", Marker, "\"", "\\", "\"", "\"", ")">>
    /\ probe.output.call = <<Marker, "\"", "\\", "\"", "\"", ")">>

\* the calls of the backend that take screen coordinates
PointerCalls == {"tap", "double_tap", "long_press", "swipe"}

\* x, y is a pixel of the screen
OnScreen(x, y) == 0 <= x /\ x <= ScreenSize[1] /\ 0 <= y /\ y <= ScreenSize[2]

\* C36: for every action that passes validation, each coordinate ActionHandler
\* passes to the backend (tap, double tap, long press, both ends of a two-point
\* swipe and of a point-plus-direction swipe) lies on the screen, 0 <= x <= w and
\* 0 <= y <= h.
C36_CoordinatesOnScreen ==
    (probe.fn = "execute" /\ probe.done /\ validate(RawAction(probe.input.action)).ok) =>
        \A i \in 1..Len(probe.output.calls) :
            probe.output.calls[i].name \in PointerCalls =>
                \A k \in 1..(Len(probe.output.calls[i].args) \div 2) :
                    OnScreen(probe.output.calls[i].args[2 * k - 1], probe.output.calls[i].args[2 * k])

\* a run() call returns from its loop with the stop reason
ReturnsWith(stop_reason) == pc = "loop" /\ pc' = "idle" /\ result'.outcome = "returned" /\ result'.stop_reason = stop_reason

\* C37: run() reports stop_reason 'max_steps' only when the step budget was used
\* up: exactly max_steps steps were executed and none of them finished the run
\* (no error, no declined confirmation, no Complete or Abort).
C37_MaxStepsMeansBudgetUsed ==
    [][ReturnsWith("max_steps") => (step + 1 = config.max_steps /\ last_result'.present /\ ~last_result'.finished)]_vars

\* a run() call returns a RunResult from its loop
RunReturns == pc = "loop" /\ pc' = "idle" /\ result'.outcome = "returned"

\* C38: when run() returns, for any stop reason, the session it used is no longer
\* 'running': its persisted status is 'completed', 'aborted' or 'paused'.
C38_ReturnedRunLeavesNoRunningSession ==
    [][RunReturns => (/\ result'.session_id \in DOMAIN disk'
                      /\ disk'[result'.session_id].status \in {"completed", "aborted", "paused"})]_vars

\* the step is a loop iteration that ended the run with the Abort of the parse-error ceiling
ParseAborted == ParseFailed /\ parse_error_count' >= max_parse_errors /\ ~turn'.executed /\ pc' = "idle" /\ result'.outcome = "returned" /\ result'.stop_reason = "aborted"

\* the number of LLM outputs at the end of the current run() call that failed to
\* parse one after the other: the counter is reset by a successful parse only, so
\* it counts such outputs, and the current run has made llm_calls requests
run_parse_failures == IF parse_error_count <= llm_calls THEN parse_error_count ELSE llm_calls

\* C39: the parse-error ceiling counts the failures of the current run only: a run
\* is aborted for parse failure only if max_parse_errors consecutive LLM outputs
\* of that same run failed to parse.
C39_CeilingCountsThisRunOnly ==
    [][ParseAborted => run_parse_failures' >= max_parse_errors]_vars

\* the plan was created and only mark_current_complete, mark_current_failed,
\* skip_current and insert_step have changed it: no step of the agent was recorded
PlanOperatedOn == probe.fn = "start_task" /\ probe.done /\ history.task_plan.present /\ history.entries = <<>>

\* C40: in every state reachable from a created plan by mark_current_complete,
\* skip_current, mark_current_failed and insert_step (at any position), every
\* sub-task before current_step is Completed and none at or after current_step is;
\* hence is_complete holds exactly when current_step = len(sub_tasks).
C40_CompletedExactlyBeforeCurrent ==
    PlanOperatedOn =>
        /\ \A i \in 1..Len(history.task_plan.sub_tasks) : (history.task_plan.sub_tasks[i].status = "completed") <=> (i <= history.task_plan.current_step)
        /\ is_complete(history.task_plan) <=> (history.task_plan.current_step = Len(history.task_plan.sub_tasks))

====
